---- MODULE Spec2Model ----
(***************************************************************************)
(* Model of the network data collation pipeline:                           *)
(*   - filter_data_based_on_status_and_year (src/src/data_processing/      *)
(*     network_data.py and its older copy script/network_data.py),         *)
(*   - filter_by_planned_year (src/src/data_processing/intra_hvdc.py),     *)
(*   - derive_voltage, concatenate_sheets, compile_node_info and           *)
(*     add_coordinates_and_site_name_to_nodes of get_network_data,         *)
(*   - lookup_etys_node (plant_data.py and load_data.py),                  *)
(*   - the site name merge of script/bus_ids.py.                           *)
(* A DataFrame is a sequence of rows; a row is a record of its cells and   *)
(* carries its index label (name), as the Series yielded by iterrows does. *)
(***************************************************************************)
EXTENDS Integers, Sequences, FiniteSets, TLC

VARIABLES df, filtered_rows, year, variant, is_reactive, pc,
          hvdc_df, hvdc_out, target_year, hpc,
          node_name, voltage, vpc,
          all_sheets_data, selected_tags, coordinates_file,
          circuit_data, transformer_data, reactive_data,
          circuit_data_filtered, transformer_data_filtered,
          reactive_data_filtered, all_nodes_df, npc,
          nodes_df, register, register_row, ETYS_Node, unmatched_warning,
          capacity_warning, lpc,
          node_df, index_data, merged_df, bpc, site_name_mapping,
          site_nodes_df, mpc, coordinates_data, bus_ids_df,
          filtered_dataframes, missing_nodes, apc,
          tec_register_df, tec_mapping_df, ic_register_df, ic_mapping_df,
          network_outcome, lookup_raises, tec_merged, ic_merged,
          plant_output, ppc

vars == <<df, filtered_rows, year, variant, is_reactive, pc,
          hvdc_df, hvdc_out, target_year, hpc,
          node_name, voltage, vpc,
          all_sheets_data, selected_tags, coordinates_file,
          circuit_data, transformer_data, reactive_data,
          circuit_data_filtered, transformer_data_filtered,
          reactive_data_filtered, all_nodes_df, npc,
          nodes_df, register, register_row, ETYS_Node, unmatched_warning,
          capacity_warning, lpc,
          node_df, index_data, merged_df, bpc, site_name_mapping,
          site_nodes_df, mpc, coordinates_data, bus_ids_df,
          filtered_dataframes, missing_nodes, apc,
          tec_register_df, tec_mapping_df, ic_register_df, ic_mapping_df,
          network_outcome, lookup_raises, tec_merged, ic_merged,
          plant_output, ppc>>

filterVars == <<df, filtered_rows, year, variant, is_reactive, pc>>
hvdcVars == <<hvdc_df, hvdc_out, target_year, hpc>>
voltageVars == <<node_name, voltage, vpc>>
netInputs == <<all_sheets_data, selected_tags, coordinates_file>>
netData == <<circuit_data, transformer_data, reactive_data>>
netFiltered == <<circuit_data_filtered, transformer_data_filtered,
                 reactive_data_filtered>>
netVars == <<netInputs, netData, netFiltered, all_nodes_df, npc>>
lookupVars == <<nodes_df, register, register_row, ETYS_Node,
                unmatched_warning, capacity_warning, lpc>>
siteMapVars == <<site_name_mapping, site_nodes_df, mpc>>
siteVars == <<node_df, index_data, merged_df, bpc, siteMapVars,
              coordinates_data, bus_ids_df>>
assembleVars == <<filtered_dataframes, missing_nodes, apc>>
plantInputs == <<tec_register_df, tec_mapping_df, ic_register_df,
                 ic_mapping_df, network_outcome, lookup_raises>>
plantVars == <<plantInputs, tec_merged, ic_merged, plant_output, ppc>>

(* ------------------------------ bounds --------------------------------- *)
\* Longest DataFrame of arbitrary rows handed to the status/year filter.
MaxLen == 2
\* Longest DataFrame of rows that all have one key (the history of one key).
MaxKeyLen == 3
\* Longest B-5-1 sheet handed to the planned-year filter.
MaxHvdcLen == 3
\* Most characters of a node token after its 5th character.
MaxTail == 2
\* Most rows of the workbook, over all its sheets.
MaxNetRows == 2
\* Most rows of the node registry handed to a lookup.
MaxNodes == 3
\* Most nodes in the registry handed to the site merge.
MaxSiteNodes == 3
\* Most rows in the index sheets taken together.
MaxSiteRecords == 2
\* Most rows in a reconciled frame handed to the split by type.
MaxAssetRows == 2

(* ------------------------------ cells ---------------------------------- *)
\* A spreadsheet cell: a number, a text, or empty (NaN / None).
Num(n) == [tag |-> "num", n |-> n, s |-> ""]
Str(t) == [tag |-> "str", n |-> 0, s |-> t]
NaN == [tag |-> "nan", n |-> 0, s |-> ""]

\* pd.isna / pd.isnull / Series.notna on one cell.
IsNa(c) == c.tag = "nan"

\* Values of the "Year" column: effective years around the target years,
\* an empty cell, and a text cell that is not a number.
YearCells == {Num(5), Num(6), Num(12), NaN, Str("TBC")}

\* Values of the "Status" column: the tags either copy of the filter knows,
\* "Existing", and an empty cell.
StatusCells == {Str("Existing"), Str("Addition"), Str("Remove"),
                Str("Removed"), Str("Change"), NaN}

\* Node tokens.
Nodes == {"A", "B"}

\* Target years (YEAR_OF_ANALYSIS is a configuration value).
Targets == {5, 10}

\* The two copies of the filter.
Variants == {"src", "script"}

\* row.get(col) of a column the DataFrame does not have is None.
None == "None"

\* Rows of a circuit / transformer sheet: "Node 1" and "Node 2", no "Node".
CircuitRows ==
    {[Status |-> st, Year |-> y, Node1 |-> k[1], Node2 |-> k[2], Node |-> None] :
        st \in StatusCells, y \in YearCells, k \in {<<"A", "B">>, <<"B", "A">>}}

\* Rows of a reactive compensation sheet: "Node", no "Node 1" / "Node 2".
ReactiveRows ==
    {[Status |-> st, Year |-> y, Node1 |-> None, Node2 |-> None, Node |-> n] :
        st \in StatusCells, y \in YearCells, n \in Nodes}

\* get_network_data passes is_reactive=True for the reactive sheets only.
RowsOf(reactive) == IF reactive THEN ReactiveRows ELSE CircuitRows

\* The rows of one asset: key ("A","B") or node "A", with any status and a
\* year that is a number or missing.
KeyRows(reactive) ==
    {r \in RowsOf(reactive) :
        /\ r.Year.tag /= "str"
        /\ IF reactive THEN r.Node = "A" ELSE r.Node1 = "A" /\ r.Node2 = "B"}

\* A row as iterrows yields it: the cells plus the index label.
Labelled(row, i) ==
    [name |-> i, Status |-> row.Status, Year |-> row.Year,
     Node1 |-> row.Node1, Node2 |-> row.Node2, Node |-> row.Node]

(* --------------------- the status / year filter ------------------------ *)
\* The status text that removes: "Removed" in src/src/data_processing,
\* "Remove" in script/.
RemoveTag(v) == IF v = "src" THEN "Removed" ELSE "Remove"

\* Last element and front of a non-empty sequence, and the set of elements.
Last(s) == s[Len(s)]
Front(s) == SubSeq(s, 1, Len(s) - 1)
Rows(s) == {s[i] : i \in 1..Len(s)}

\* Variant of WithoutKey that treats the two endpoints as an unordered pair.
RECURSIVE WithoutKey_Unordered(_, _, _)
WithoutKey_Unordered(rs, row, reactive) ==
    IF rs = <<>> THEN <<>>
    ELSE LET r == Head(rs)
             keep == IF reactive
                     THEN r.Node /= row.Node
                     ELSE {r.Node1, r.Node2} /= {row.Node1, row.Node2}
         IN  (IF keep THEN <<r>> ELSE <<>>)
             \o WithoutKey_Unordered(Tail(rs), row, reactive)

\* Variant of WithoutKey that stops at the first row with row's key.
RECURSIVE WithoutKey_FirstOnly(_, _, _)
WithoutKey_FirstOnly(rs, row, reactive) ==
    IF rs = <<>> THEN <<>>
    ELSE LET r == Head(rs)
             keep == IF reactive
                     THEN r.Node /= row.Node
                     ELSE <<r.Node1, r.Node2>> /= <<row.Node1, row.Node2>>
         IN  IF keep THEN <<r>> \o WithoutKey_FirstOnly(Tail(rs), row, reactive)
             ELSE Tail(rs)

\* The rows of rs whose key differs from row's key (the list comprehensions).
RECURSIVE WithoutKey(_, _, _)
WithoutKey(rs, row, reactive) ==
    IF rs = <<>> THEN <<>>
    ELSE LET r == Head(rs)
             keep == IF reactive
                     THEN r.Node /= row.Node
                     ELSE <<r.Node1, r.Node2>> /= <<row.Node1, row.Node2>>
         IN  (IF keep THEN <<r>> ELSE <<>>) \o WithoutKey(Tail(rs), row, reactive)

\* row_year > year: a text year compared with an int raises TypeError.
YearRaises(row) == row.Year.tag = "str"

\* Variant of FilterRow: a row is included only if Status and Year are both
\* missing.
FilterRow_BothMissing(rs, row, T, v, reactive) ==
    IF IsNa(row.Status) /\ IsNa(row.Year) THEN Append(rs, row)
    ELSE IF IsNa(row.Status) \/ IsNa(row.Year) \/ row.Year.n > T THEN rs
    ELSE IF row.Status.s = "Addition" THEN Append(rs, row)
    ELSE IF row.Status.s = RemoveTag(v) THEN WithoutKey(rs, row, reactive)
    ELSE IF row.Status.s = "Change" THEN Append(WithoutKey(rs, row, reactive), row)
    ELSE rs

\* Variant of FilterRow: the removing row is appended like a "Change" row.
FilterRow_RemoveAdmits(rs, row, T, v, reactive) ==
    IF IsNa(row.Status) \/ IsNa(row.Year) THEN Append(rs, row)
    ELSE IF row.Year.n > T THEN rs
    ELSE IF row.Status.s = "Addition" THEN Append(rs, row)
    ELSE IF row.Status.s = RemoveTag(v)
         THEN Append(WithoutKey(rs, row, reactive), row)
    ELSE IF row.Status.s = "Change" THEN Append(WithoutKey(rs, row, reactive), row)
    ELSE rs

\* Variant of FilterRow: a "Change" row is appended without deleting.
FilterRow_ChangeKeepsOld(rs, row, T, v, reactive) ==
    IF IsNa(row.Status) \/ IsNa(row.Year) THEN Append(rs, row)
    ELSE IF row.Year.n > T THEN rs
    ELSE IF row.Status.s = "Addition" THEN Append(rs, row)
    ELSE IF row.Status.s = RemoveTag(v) THEN WithoutKey(rs, row, reactive)
    ELSE IF row.Status.s = "Change" THEN Append(rs, row)
    ELSE rs

\* Variant of FilterRow: the target year gates "Addition" rows only.
FilterRow_GateAdditionOnly(rs, row, T, v, reactive) ==
    IF IsNa(row.Status) \/ IsNa(row.Year) THEN Append(rs, row)
    ELSE IF row.Status.s = "Addition"
         THEN (IF row.Year.n > T THEN rs ELSE Append(rs, row))
    ELSE IF row.Status.s = RemoveTag(v) THEN WithoutKey(rs, row, reactive)
    ELSE IF row.Status.s = "Change" THEN Append(WithoutKey(rs, row, reactive), row)
    ELSE rs

\* Variant of FilterRow: the year test excludes rows before the target year.
FilterRow_YearBeforeTarget(rs, row, T, v, reactive) ==
    IF IsNa(row.Status) \/ IsNa(row.Year) THEN Append(rs, row)
    ELSE IF row.Year.n < T THEN rs
    ELSE IF row.Status.s = "Addition" THEN Append(rs, row)
    ELSE IF row.Status.s = RemoveTag(v) THEN WithoutKey(rs, row, reactive)
    ELSE IF row.Status.s = "Change" THEN Append(WithoutKey(rs, row, reactive), row)
    ELSE rs

\* Variant of FilterRow: a "Change" row takes the place at the head of the list.
FilterRow_ChangeFirst(rs, row, T, v, reactive) ==
    IF IsNa(row.Status) \/ IsNa(row.Year) THEN Append(rs, row)
    ELSE IF row.Year.n > T THEN rs
    ELSE IF row.Status.s = "Addition" THEN Append(rs, row)
    ELSE IF row.Status.s = RemoveTag(v) THEN WithoutKey(rs, row, reactive)
    ELSE IF row.Status.s = "Change" THEN <<row>> \o WithoutKey(rs, row, reactive)
    ELSE rs

\* One iteration of the loop body: the new value of filtered_rows.
FilterRow(rs, row, T, v, reactive) ==
    IF IsNa(row.Status) \/ IsNa(row.Year) THEN Append(rs, row)
    ELSE IF row.Year.n > T THEN rs
    ELSE IF row.Status.s = "Addition" THEN Append(rs, row)
    ELSE IF row.Status.s = RemoveTag(v) THEN WithoutKey(rs, row, reactive)
    ELSE IF row.Status.s = "Change" THEN Append(WithoutKey(rs, row, reactive), row)
    ELSE rs

\* Whether the iteration raises instead (both cells present, year a text).
RowRaises(row) == ~IsNa(row.Status) /\ ~IsNa(row.Year) /\ YearRaises(row)

\* The whole loop over a DataFrame none of whose rows raises.
RECURSIVE FilterRun(_, _, _, _)
FilterRun(rows, T, v, reactive) ==
    IF rows = <<>> THEN <<>>
    ELSE FilterRow(FilterRun(Front(rows), T, v, reactive), Last(rows), T, v, reactive)

FilterInit ==
    /\ df = <<>>
    /\ filtered_rows = <<>>
    /\ year \in Targets
    /\ variant \in Variants
    /\ is_reactive \in BOOLEAN
    /\ pc = "loop"

\* One pass of `for _, row in df.iterrows()` over the next row of df, the
\* DataFrame holding at most bound rows, all drawn from domain.
Iterate(domain, bound) ==
    /\ pc = "loop"
    /\ Len(df) < bound
    /\ \E cells \in domain :
          LET row == Labelled(cells, Len(df) + 1) IN
          /\ df' = Append(df, row)
          /\ IF RowRaises(row)
             THEN /\ pc' = "raised"
                  /\ filtered_rows' = filtered_rows
             ELSE /\ pc' = "loop"
                  /\ filtered_rows' =
                        FilterRow(filtered_rows, row, year, variant, is_reactive)
    /\ UNCHANGED <<year, variant, is_reactive>>

\* End of the loop: result_df = pd.DataFrame(filtered_rows, ...) is returned.
Return ==
    /\ pc = "loop"
    /\ pc' = "done"
    /\ UNCHANGED <<df, filtered_rows, year, variant, is_reactive>>

(* ------------------ the HVDC planned-year filter ----------------------- *)
\* Values of the "Planned from year" column of sheet B-5-1.
PlannedCells == {Num(5), Num(6), Num(12), Str("Existing"), Str("existing"),
                 Str("TBC"), NaN}

\* astype(str) of one cell: a number becomes its decimal text (kept here as
\* a text cell that remembers the number), an empty cell the text "nan".
AsTypeStr(c) ==
    IF c.tag = "num" THEN [tag |-> "str", n |-> c.n, s |-> "#"]
    ELSE IF c.tag = "nan" THEN Str("nan")
    ELSE c

\* pd.to_numeric(..., errors="coerce") of one text cell: a decimal text
\* parses to its number, anything else ("nan" included) becomes NaN.
ToNumeric(c) == IF c.s = "#" THEN Num(c.n) ELSE NaN

\* str.lower() on the texts of PlannedCells.
Lower(t) == IF t = "Existing" THEN "existing" ELSE t

\* The row of the output for one kept row: "Year" and "Status" are added.
PlannedRow(i, cell) ==
    LET text == AsTypeStr(cell)
        y == ToNumeric(text)
    IN  [name |-> i, Planned |-> text, Year |-> y,
         Status |-> IF ~IsNa(y) THEN "Addition" ELSE "Existing"]

\* condition_existing | condition_numeric for one cell.
PlannedKept(cell, T) ==
    LET text == AsTypeStr(cell)
        y == ToNumeric(text)
    IN  \/ Lower(text.s) = "existing"
        \/ (~IsNa(y) /\ y.n <= T)

RECURSIVE PlannedFrom(_, _, _)
PlannedFrom(cells, i, T) ==
    IF i > Len(cells) THEN <<>>
    ELSE (IF PlannedKept(cells[i], T) THEN <<PlannedRow(i, cells[i])>> ELSE <<>>)
         \o PlannedFrom(cells, i + 1, T)

\* filter_by_planned_year on a sheet that has the column.
FilterByPlannedYear(cells, T) == PlannedFrom(cells, 1, T)

HvdcIdle ==
    /\ hvdc_df = <<>>
    /\ hvdc_out = <<>>
    /\ target_year = 0
    /\ hpc = "idle"

HvdcInit ==
    /\ hvdc_df = <<>>
    /\ hvdc_out = <<>>
    /\ target_year \in Targets
    /\ hpc = "read"

FilterIdle ==
    /\ df = <<>>
    /\ filtered_rows = <<>>
    /\ year = 0
    /\ variant = "src"
    /\ is_reactive = FALSE
    /\ pc = "idle"

\* pd.read_excel delivers the sheet row by row.
ReadHvdcRow ==
    /\ hpc = "read"
    /\ Len(hvdc_df) < MaxHvdcLen
    /\ \E cell \in PlannedCells : hvdc_df' = Append(hvdc_df, cell)
    /\ UNCHANGED <<hvdc_out, target_year, hpc>>

\* process_intra_hvdc_data: the sheet is filtered and returned.
ProcessIntraHvdc ==
    /\ hpc = "read"
    /\ hvdc_out' = FilterByPlannedYear(hvdc_df, target_year)
    /\ hpc' = "done"
    /\ UNCHANGED <<hvdc_df, target_year>>

(* --------------------------- derive_voltage --------------------------- *)
\* A text is the sequence of its characters, so that len(), indexing,
\* slicing and concatenation are what they are in the code.
Digits == {"0", "1", "2", "3", "4", "5", "6", "7", "8", "9"}

\* A character for which str.isdigit() is true although it is no decimal
\* digit (SUPERSCRIPT TWO).
SuperscriptTwo == "sup2"

\* str.isdigit() on one character.
IsDigit(ch) == ch \in Digits \cup {SuperscriptTwo}

Unknown == <<"U", "n", "k", "n", "o", "w", "n">>

\* VOLTAGE_MAPPING.get(ch, "Unknown").
VOLTAGE_MAPPING(ch) ==
    CASE ch = "1" -> <<"1", "3", "2">>
      [] ch = "2" -> <<"2", "7", "5">>
      [] ch = "3" -> <<"3", "3">>
      [] ch = "4" -> <<"4", "0", "0">>
      [] ch = "5" -> <<"1", "1">>
      [] ch = "6" -> <<"6", "6">>
      [] ch = "7" -> <<"2", "5">>
      [] ch = "8" -> <<"2", "2">>
      [] OTHER -> Unknown

derive_voltage_FourthChar(name) ==
    IF Len(name) >= 5 /\ IsDigit(name[4]) THEN VOLTAGE_MAPPING(name[4])
    ELSE Unknown

\* derive_voltage(node_name); node_name[4] is the 5th character.
derive_voltage(name) ==
    IF Len(name) >= 5 /\ IsDigit(name[5]) THEN VOLTAGE_MAPPING(name[5])
    ELSE Unknown

\* All sequences over S of length at most n.
SeqsUpTo(S, n) == UNION {[1..k -> S] : k \in 0..n}

\* Tokens handed to derive_voltage: every prefix of two site codes, and the
\* site codes followed by any 5th character and a short tail.
VoltageTokens ==
    LET codes == {<<"A", "B", "C", "D">>, <<"A", "B", "1", "2">>}
    IN  {SubSeq(p, 1, k) : p \in codes, k \in 0..4}
        \cup {p \o <<c>> \o t : p \in codes,
                                c \in Digits \cup {SuperscriptTwo, "X", "-"},
                                t \in SeqsUpTo({"X", "4"}, MaxTail)}

VoltageIdle ==
    /\ node_name = <<>>
    /\ voltage = <<>>
    /\ vpc = "idle"

VoltageInit ==
    /\ node_name \in VoltageTokens
    /\ voltage = <<>>
    /\ vpc = "call"

\* One call of derive_voltage.
DeriveVoltage ==
    /\ vpc = "call"
    /\ voltage' = derive_voltage(node_name)
    /\ vpc' = "done"
    /\ UNCHANGED node_name

(* ------------------- texts: order, strip, join ------------------------- *)
\* The characters of the model in code point order.
CodePoints ==
    <<" ", ",", "-", "0", "1", "2", "3", "4", "5", "6", "7", "8", "9",
      "A", "B", "C", "D", "E", "F", "G", "H", "I", "J", "K", "L", "M", "N",
      "O", "P", "Q", "R", "S", "T", "U", "V", "W", "X", "Y", "Z",
      "a", "b", "c", "d", "e", "k", "l", "n", "o", "s", "u", "w">>

Ord(ch) == CHOOSE i \in 1..Len(CodePoints) : CodePoints[i] = ch

\* a < b on Python strings.
RECURSIVE LexLess(_, _)
LexLess(a, b) ==
    IF a = <<>> THEN b # <<>>
    ELSE IF b = <<>> THEN FALSE
    ELSE IF a[1] = b[1] THEN LexLess(Tail(a), Tail(b))
    ELSE Ord(a[1]) < Ord(b[1])

\* sorted(S) for a set of texts.
RECURSIVE Sorted(_)
Sorted(S) ==
    IF S = {} THEN <<>>
    ELSE LET m == CHOOSE x \in S : \A y \in S \ {x} : LexLess(x, y)
         IN  <<m>> \o Sorted(S \ {m})

\* str.strip().
RECURSIVE Strip(_)
Strip(t) ==
    IF t = <<>> THEN t
    ELSE IF t[1] = " " THEN Strip(Tail(t))
    ELSE IF t[Len(t)] = " " THEN Strip(Front(t))
    ELSE t

\* ", ".join(texts).
RECURSIVE Join(_)
Join(texts) ==
    IF texts = <<>> THEN <<>>
    ELSE IF Len(texts) = 1 THEN texts[1]
    ELSE texts[1] \o <<",", " ">> \o Join(Tail(texts))

\* text[:n].
Prefix(t, n) == SubSeq(t, 1, IF Len(t) < n THEN Len(t) ELSE n)

\* A text cell that is empty (NaN), and a column the frame does not have.
TextNaN == <<"nan">>
Absent == <<"None">>

(* ------------------------- the workbook -------------------------------- *)
SheetName(cat, sub, tag) == <<"B", "-", cat, "-", sub, tag>>

SheetsOfCategory(cat) ==
    <<SheetName(cat, "1", "a"), SheetName(cat, "1", "b"),
      SheetName(cat, "1", "c"), SheetName(cat, "1", "d"),
      SheetName(cat, "2", "a"), SheetName(cat, "2", "b"),
      SheetName(cat, "2", "c"), SheetName(cat, "2", "d")>>

CIRCUIT_SHEETS == SheetsOfCategory("2")
TRANSFORMER_SHEETS == SheetsOfCategory("3")
REACTIVE_SHEETS == SheetsOfCategory("4")

\* SHEET_ASSOCIATIONS.get(tag, "Unknown").
SHEET_ASSOCIATIONS(tag) ==
    CASE tag = "a" -> <<"S", "H", "E", "T">>
      [] tag = "b" -> <<"S", "P", "T">>
      [] tag = "c" -> <<"N", "G", "E", "T">>
      [] tag = "d" -> <<"O", "F", "T", "O">>
      [] tag = "1" -> <<"A", "l", "l">>
      [] OTHER -> Unknown

\* The keys of SHEET_ASSOCIATIONS.
AssociationTags == {"a", "b", "c", "d", "1"}

\* The sheets the workbook can hold: two circuit sheets of two authorities,
\* a transformer sheet and a reactive compensation sheet.
WorkbookSheets ==
    {SheetName("2", "1", "a"), SheetName("2", "2", "c"),
     SheetName("3", "1", "c"), SheetName("4", "1", "a")}

\* Values of SELECTED_TAGS.
TagSelections ==
    {{<<"N", "G", "E", "T">>}, {<<"S", "H", "E", "T">>, <<"N", "G", "E", "T">>}}

\* Node tokens of the workbook; the last one carries a trailing blank.
TokA4 == <<"A", "B", "C", "D", "4">>
TokA1 == <<"A", "B", "C", "D", "1">>
TokE2 == <<"E", "F", "G", "H", "2">>
TokA4Blank == <<"A", "B", "C", "D", "4", " ">>

\* "Status" and "Year" of a workbook row: both empty, a future addition, a
\* past removal.
NetStatusYear ==
    {<<NaN, NaN>>, <<Str("Addition"), Num(12)>>, <<Str(RemoveTag("src")), Num(5)>>}

\* Rows of a circuit or transformer sheet; one row has an empty "Node 2".
TwoEndRows ==
    {[Status |-> sy[1], Year |-> sy[2], Node1 |-> k[1], Node2 |-> k[2],
      Node |-> Absent] :
        sy \in NetStatusYear, k \in {<<TokA4, TokA1>>, <<TokA4Blank, TokE2>>}}
    \cup {[Status |-> NaN, Year |-> NaN, Node1 |-> TokE2, Node2 |-> TextNaN,
           Node |-> Absent]}

\* Rows of a reactive compensation sheet.
OneEndRows ==
    {[Status |-> sy[1], Year |-> sy[2], Node1 |-> Absent, Node2 |-> Absent,
      Node |-> n] :
        sy \in NetStatusYear, n \in {TokA1, TokE2}}

\* The rows a sheet can hold, by its category.
SheetRows(sheet) == IF sheet[3] = "4" THEN OneEndRows ELSE TwoEndRows

\* The coordinates CSV: unreadable, or a table of site codes with a
\* latitude each (the longitude goes with it); a site code can repeat.
CoordRow(code, lat) == [SiteCode |-> code, latitude |-> Num(lat)]

CoordinateFiles ==
    {[readable |-> FALSE, rows |-> <<>>]}
    \cup {[readable |-> TRUE, rows |-> t] :
            t \in {<<>>,
                   <<CoordRow(<<"A", "B", "C", "D">>, 1)>>,
                   <<CoordRow(<<"A", "B", "C", "D">>, 1),
                     CoordRow(<<"A", "B", "C", "D">>, 2)>>}}

(* --------------------------- the normalizer ---------------------------- *)
\* filter_relevant_sheets_data: the sheets whose last character maps to a
\* selected tag.
filter_relevant_sheets_data(all_data, tags) ==
    LET kept == {sh \in DOMAIN all_data :
                    /\ Last(sh) \in AssociationTags
                    /\ SHEET_ASSOCIATIONS(Last(sh)) \in tags}
    IN  [sh \in kept |-> all_data[sh]]

\* sheets_data[sheet].assign(Sheet_Name=sheet).
AssignSheetName(rows, sheet) ==
    [i \in 1..Len(rows) |->
        [name |-> i, Status |-> rows[i].Status, Year |-> rows[i].Year,
         Node1 |-> rows[i].Node1, Node2 |-> rows[i].Node2,
         Node |-> rows[i].Node, Sheet_Name |-> sheet]]

\* The frames of the sheets of sheet_list[i..] that sheets_data holds, one
\* after the other.
RECURSIVE FramesFrom(_, _, _)
FramesFrom(sheet_list, i, sheets_data) ==
    IF i > Len(sheet_list) THEN <<>>
    ELSE (IF sheet_list[i] \in DOMAIN sheets_data
          THEN AssignSheetName(sheets_data[sheet_list[i]], sheet_list[i])
          ELSE <<>>)
         \o FramesFrom(sheet_list, i + 1, sheets_data)

\* pd.concat(..., ignore_index=True): the rows are labelled anew.
IgnoreIndex(rows) ==
    [i \in 1..Len(rows) |-> [rows[i] EXCEPT !.name = i]]

\* The reverse of a list.
Reverse(list) == [i \in 1..Len(list) |-> list[Len(list) + 1 - i]]

\* Variant of concatenate_sheets that walks sheet_list from its end.
concatenate_sheets_Reversed(sheet_list, sheets_data) ==
    IgnoreIndex(FramesFrom(Reverse(sheet_list), 1, sheets_data))

\* Variant of concatenate_sheets that puts the rows of each frame in
\* reverse order.
concatenate_sheets_RowsReversed(sheet_list, sheets_data) ==
    IgnoreIndex(FramesFrom(sheet_list, 1,
        [sh \in DOMAIN sheets_data |-> Reverse(sheets_data[sh])]))

\* concatenate_sheets: an empty DataFrame when no sheet of the list is held.
concatenate_sheets(sheet_list, sheets_data) ==
    IgnoreIndex(FramesFrom(sheet_list, 1, sheets_data))

(* --------------------------- the node registry ------------------------- *)
\* Variant of RowNodes that reads "Node 1" and "Node" only.
RowNodes_FirstEndpoint(row) ==
    {Strip(c) : c \in {row.Node1, row.Node} \ {Absent, TextNaN}}

\* The node names a row contributes: the cells of "Node 1", "Node 2" and
\* "Node" that exist and are not empty, stripped.
RowNodes(row) ==
    {Strip(c) : c \in {row.Node1, row.Node2, row.Node} \ {Absent, TextNaN}}

\* node_info after the first loop: node -> set of sheet names.
NodeInfo(rows) ==
    LET nodes == UNION {RowNodes(r) : r \in Rows(rows)}
    IN  [n \in nodes |-> {r.Sheet_Name : r \in {x \in Rows(rows) : n \in RowNodes(x)}}]

\* One row of the registry.
NodeRow(node, sheets) ==
    [Node |-> node,
     Voltage |-> derive_voltage(node),
     SheetNames |-> Join(Sorted(sheets)),
     RelevantTO |-> Join(Sorted({SHEET_ASSOCIATIONS(Last(sh)) : sh \in sheets}))]

\* compile_node_info when it finds a node: the rows sorted by "Node".  Every
\* row of a concatenated frame carries its Sheet_Name, so the second loop
\* (nodes without sheet info) finds nothing to add.
compile_node_info(circuits, transformers, reactives) ==
    LET info == NodeInfo(circuits \o transformers \o reactives)
        order == Sorted(DOMAIN info)
    IN  [i \in 1..Len(order) |-> NodeRow(order[i], info[order[i]])]

\* compile_node_info raises when it finds no node: pd.DataFrame([]) has no
\* "Node" column for sort_values.
CompileRaises(circuits, transformers, reactives) ==
    DOMAIN NodeInfo(circuits \o transformers \o reactives) = {}

\* The rows of coords whose "Site Code" is code, in table order.
RECURSIVE CoordsOf(_, _)
CoordsOf(coords, code) ==
    IF coords = <<>> THEN <<>>
    ELSE (IF coords[1].SiteCode = code THEN <<coords[1]>> ELSE <<>>)
         \o CoordsOf(Tail(coords), code)

\* site_name_mapping of a workbook without index sheets.
NoSiteNames == [code \in {} |-> TextNaN]

\* Series.map(site_name_mapping) on one site code.
MapSiteName(mapping, code) ==
    IF code \in DOMAIN mapping THEN mapping[code] ELSE TextNaN

\* The rows a left merge gives for one node row: one per matching row of
\* the coordinates table, or one without coordinates.
MergedRows(row, coords, mapping) ==
    LET code == Prefix(row.Node, 4)
        hits == CoordsOf(coords, code)
        out(lat) == [Node |-> row.Node, Voltage |-> row.Voltage,
                     SheetNames |-> row.SheetNames,
                     RelevantTO |-> row.RelevantTO,
                     latitude |-> lat,
                     SiteName |-> MapSiteName(mapping, code)]
    IN  IF hits = <<>> THEN <<out(NaN)>>
        ELSE [i \in 1..Len(hits) |-> out(hits[i].latitude)]

RECURSIVE MergeCoordinates(_, _, _)
MergeCoordinates(nodes, coords, mapping) ==
    IF nodes = <<>> THEN <<>>
    ELSE MergedRows(nodes[1], coords, mapping)
         \o MergeCoordinates(Tail(nodes), coords, mapping)

\* add_coordinates_and_site_name_to_nodes: the left merge on the first four
\* characters of "Node", or nodes_df itself when reading the file fails.
add_coordinates_and_site_name_to_nodes(nodes, file, mapping) ==
    IF file.readable THEN MergeCoordinates(nodes, file.rows, mapping)
    ELSE nodes

(* --------------------------- get_network_data ------------------------- *)
RECURSIVE TotalRows(_, _)
TotalRows(data, sheets) ==
    IF sheets = {} THEN 0
    ELSE LET sh == CHOOSE x \in sheets : TRUE
         IN  Len(data[sh]) + TotalRows(data, sheets \ {sh})

NetIdle ==
    /\ all_sheets_data = <<>>
    /\ selected_tags = {}
    /\ coordinates_file = [readable |-> FALSE, rows |-> <<>>]
    /\ circuit_data = <<>>
    /\ transformer_data = <<>>
    /\ reactive_data = <<>>
    /\ circuit_data_filtered = <<>>
    /\ transformer_data_filtered = <<>>
    /\ reactive_data_filtered = <<>>
    /\ all_nodes_df = <<>>
    /\ npc = "idle"

\* The workbook holds some of its sheets, still without rows; the selected
\* tags and the coordinates file are configuration.
NetInit ==
    /\ all_sheets_data \in
          {[sh \in S |-> <<>>] : S \in SUBSET WorkbookSheets}
    /\ selected_tags \in TagSelections
    /\ coordinates_file \in CoordinateFiles
    /\ circuit_data = <<>>
    /\ transformer_data = <<>>
    /\ reactive_data = <<>>
    /\ circuit_data_filtered = <<>>
    /\ transformer_data_filtered = <<>>
    /\ reactive_data_filtered = <<>>
    /\ all_nodes_df = <<>>
    /\ npc = "parse"

\* The filter as get_network_data calls it: the src/src copy, one target year.
NetFilterInit ==
    /\ df = <<>>
    /\ filtered_rows = <<>>
    /\ year = 10
    /\ variant = "src"
    /\ is_reactive = FALSE
    /\ pc = "idle"

\* parse_all_sheets reads one more row of a sheet.
ParseRow ==
    /\ npc = "parse"
    /\ TotalRows(all_sheets_data, DOMAIN all_sheets_data) < MaxNetRows
    /\ \E sh \in DOMAIN all_sheets_data :
          \E row \in SheetRows(sh) :
             all_sheets_data' =
                [all_sheets_data EXCEPT ![sh] = Append(@, row)]
    /\ UNCHANGED <<selected_tags, coordinates_file, netData, netFiltered,
                   all_nodes_df, npc>>

\* filter_relevant_sheets_data and concatenate_and_process_sheets; a
\* ValueError when no sheet is relevant.
ConcatenateAndProcessSheets ==
    /\ npc = "parse"
    /\ LET relevant == filter_relevant_sheets_data(all_sheets_data, selected_tags)
       IN  IF DOMAIN relevant = {}
           THEN /\ npc' = "raised"
                /\ UNCHANGED netData
           ELSE /\ npc' = "concatenated"
                /\ circuit_data' = concatenate_sheets(CIRCUIT_SHEETS, relevant)
                /\ transformer_data' =
                      concatenate_sheets(TRANSFORMER_SHEETS, relevant)
                /\ reactive_data' = concatenate_sheets(REACTIVE_SHEETS, relevant)
    /\ UNCHANGED <<netInputs, netFiltered, all_nodes_df>>

\* The three calls of filter_data_based_on_status_and_year.
FilterNetworkData ==
    /\ npc = "concatenated"
    /\ IF \E r \in Rows(circuit_data \o transformer_data \o reactive_data) :
             RowRaises(r)
       THEN /\ npc' = "raised"
            /\ UNCHANGED netFiltered
       ELSE /\ npc' = "filtered"
            /\ circuit_data_filtered' =
                  FilterRun(circuit_data, year, variant, FALSE)
            /\ transformer_data_filtered' =
                  FilterRun(transformer_data, year, variant, FALSE)
            /\ reactive_data_filtered' =
                  FilterRun(reactive_data, year, variant, TRUE)
    /\ UNCHANGED <<netInputs, netData, all_nodes_df>>

\* compile_node_info on the three filtered frames.
CompileNodeInfo ==
    /\ npc = "filtered"
    /\ IF CompileRaises(circuit_data_filtered, transformer_data_filtered,
                        reactive_data_filtered)
       THEN /\ npc' = "raised"
            /\ UNCHANGED all_nodes_df
       ELSE /\ npc' = "compiled"
            /\ all_nodes_df' =
                  compile_node_info(circuit_data_filtered,
                                    transformer_data_filtered,
                                    reactive_data_filtered)
    /\ UNCHANGED <<netInputs, netData, netFiltered>>

\* add_coordinates_and_site_name_to_nodes; get_network_data returns.
AddCoordinates ==
    /\ npc = "compiled"
    /\ all_nodes_df' =
          add_coordinates_and_site_name_to_nodes(all_nodes_df, coordinates_file,
                                                 NoSiteNames)
    /\ npc' = "returned"
    /\ UNCHANGED <<netInputs, netData, netFiltered>>

(* --------------------------- lookup_etys_node -------------------------- *)
\* GEN_CAPACITY_FOR_TRANSMISSION is imported from src.config, which does not
\* define it; the comparison is all the code does with it.
GEN_CAPACITY_FOR_TRANSMISSION == 100

\* A cell of a column the frame does not have: row.get(col, 0) gives 0.
NoCell == [tag |-> "none", n |-> 0, s |-> ""]

\* The "Node" column of nodes_df can hold these tokens.
RegistryKeys ==
    {<<"A", "B", "C", "D", "4", "A">>, <<"A", "B", "C", "D", "4", "B">>,
     <<"A", "B", "C", "D", "3", "A">>, <<"A", "B", "C", "D", "2", "A">>,
     <<"A", "B", "C", "D", "1", "A">>, <<"A", "B", "C", "D">>,
     <<"E", "F", "G", "H", "2", "A">>}

\* Values of "Node_Name" / "GSP": a full token, its first five characters,
\* a token with an unknown 5th character, short tokens, a token of an
\* unknown site, the empty text and an empty cell.
LookupTokens ==
    {<<"A", "B", "C", "D", "4", "A">>, <<"A", "B", "C", "D", "4">>,
     <<"A", "B", "C", "D", "9">>, <<"A", "B", "C">>,
     <<"Q", "R", "S", "T", "1">>, <<>>, TextNaN}

\* Rows of the TEC register (MW_Capacity), of the IC register
\* (MW_Import_Capacity, MW_Export_Capacity) and of the demand data (GSP).
RegisterRows(frame) ==
    LET T == GEN_CAPACITY_FOR_TRANSMISSION
        caps == IF frame = "tec"
                THEN {<<c, NoCell, NoCell>> : c \in {NaN, Num(T), Num(T + 1)}}
                ELSE IF frame = "ic"
                THEN {<<NoCell, Num(T + 1), NaN>>, <<NoCell, NaN, Num(T + 1)>>,
                      <<NoCell, Num(T), Num(0)>>}
                ELSE {<<NoCell, NoCell, NoCell>>}
    IN  {[Node_Name |-> t, MW_Capacity |-> c[1], MW_Import_Capacity |-> c[2],
          MW_Export_Capacity |-> c[3]] : t \in LookupTokens, c \in caps}

\* `x or 0`: None and 0 give 0, NaN stays NaN.
OrZero(c) == IF c.tag = "none" THEN Num(0) ELSE c

\* a > b on floats: false when either is NaN.
Gt(a, b) == a.tag = "num" /\ b.tag = "num" /\ a.n > b.n

\* max(a, b, c) of Python: the first item is kept unless a later one is
\* greater.
PyMax(a, b, c) ==
    LET ab == IF Gt(b, a) THEN b ELSE a
    IN  IF Gt(c, ab) THEN c ELSE ab

\* The capacity of a register row.
Capacity(row) ==
    PyMax(OrZero(row.MW_Capacity), OrZero(row.MW_Import_Capacity),
          OrZero(row.MW_Export_Capacity))

\* nodes_df[nodes_df["Node"].str[:n] == token[:n]]["Node"].
PrefixMatches(nodes, token, n) ==
    SelectSeq(nodes, LAMBDA k : Prefix(k, n) = Prefix(token, n))

\* nodes_df[nodes_df["Node"] == token]["Node"].
ExactMatches(nodes, token) == SelectSeq(nodes, LAMBDA k : k = token)

\* Series.str[4].astype(str) on one node: "nan" for a shorter node.
FifthDigit(node) == IF Len(node) >= 5 THEN node[5] ELSE "nan"

\* What a lookup does: the value it returns, whether it raises instead, and
\* whether it logs the "No ETYS Node match found" warning for the row.
Returns(node) == [ret |-> node, raised |-> FALSE, warned |-> FALSE]
Raises == [ret |-> TextNaN, raised |-> TRUE, warned |-> FALSE]
NoMatch(warned) == [ret |-> TextNaN, raised |-> FALSE, warned |-> warned]

\* Variant of PlantTier3 that takes a capacity equal to the threshold as
\* high.
PlantTier3_AtLeast(row, partial_matches4) ==
    LET first_node == partial_matches4[1]
        in24(k) == FifthDigit(k) \in {"2", "4"}
        preferred == SelectSeq(partial_matches4, in24)
        non_preferred == SelectSeq(partial_matches4, LAMBDA k : ~in24(k))
    IN  IF Len(first_node) < 5 THEN Raises
        ELSE IF ~Gt(Num(GEN_CAPACITY_FOR_TRANSMISSION), Capacity(row))
        THEN IF first_node[5] \in {"2", "4"} THEN Returns(first_node)
             ELSE IF preferred # <<>> THEN Returns(preferred[1])
             ELSE Returns(first_node)
        ELSE IF first_node[5] \notin {"2", "4"} THEN Returns(first_node)
             ELSE IF non_preferred # <<>> THEN Returns(non_preferred[1])
             ELSE Returns(first_node)

\* The 4-character tier of the plant lookup, partial_matches4 not empty.
\* first_node[4] raises IndexError for a node of fewer than 5 characters.
PlantTier3(row, partial_matches4) ==
    LET first_node == partial_matches4[1]
        in24(k) == FifthDigit(k) \in {"2", "4"}
        preferred == SelectSeq(partial_matches4, in24)
        non_preferred == SelectSeq(partial_matches4, LAMBDA k : ~in24(k))
    IN  IF Len(first_node) < 5 THEN Raises
        ELSE IF Gt(Capacity(row), Num(GEN_CAPACITY_FOR_TRANSMISSION))
        THEN IF first_node[5] \in {"2", "4"} THEN Returns(first_node)
             ELSE IF preferred # <<>> THEN Returns(preferred[1])
             ELSE Returns(first_node)
        ELSE IF first_node[5] \notin {"2", "4"} THEN Returns(first_node)
             ELSE IF non_preferred # <<>> THEN Returns(non_preferred[1])
             ELSE Returns(first_node)

\* Variant of plant_lookup_etys_node that tries the 5-character tier before
\* the exact match.
plant_lookup_etys_node_PrefixFirst(r, nodes) ==
    LET name == r.Node_Name
        exact_matches == ExactMatches(nodes, name)
        partial_matches5 == PrefixMatches(nodes, name, 5)
        partial_matches4 == PrefixMatches(nodes, name, 4)
    IN  IF name = TextNaN \/ name = <<>> THEN NoMatch(FALSE)
        ELSE IF partial_matches5 # <<>> THEN Returns(partial_matches5[1])
        ELSE IF exact_matches # <<>> THEN Returns(exact_matches[1])
        ELSE IF partial_matches4 # <<>> THEN PlantTier3(r, partial_matches4)
        ELSE NoMatch(TRUE)

\* Variant of plant_lookup_etys_node whose 5-character tier takes the last
\* match.
plant_lookup_etys_node_LastOfFive(r, nodes) ==
    LET name == r.Node_Name
        exact_matches == ExactMatches(nodes, name)
        partial_matches5 == PrefixMatches(nodes, name, 5)
        partial_matches4 == PrefixMatches(nodes, name, 4)
    IN  IF name = TextNaN \/ name = <<>> THEN NoMatch(FALSE)
        ELSE IF exact_matches # <<>> THEN Returns(exact_matches[1])
        ELSE IF partial_matches5 # <<>> THEN Returns(Last(partial_matches5))
        ELSE IF partial_matches4 # <<>> THEN PlantTier3(r, partial_matches4)
        ELSE NoMatch(TRUE)

\* lookup_etys_node of add_etys_node (plant_data.py) on one register row.
plant_lookup_etys_node(r, nodes) ==
    LET name == r.Node_Name
        exact_matches == ExactMatches(nodes, name)
        partial_matches5 == PrefixMatches(nodes, name, 5)
        partial_matches4 == PrefixMatches(nodes, name, 4)
    IN  IF name = TextNaN \/ name = <<>> THEN NoMatch(FALSE)
        ELSE IF exact_matches # <<>> THEN Returns(exact_matches[1])
        ELSE IF partial_matches5 # <<>> THEN Returns(partial_matches5[1])
        ELSE IF partial_matches4 # <<>> THEN PlantTier3(r, partial_matches4)
        ELSE NoMatch(TRUE)

\* lookup_etys_node of load_data.py on one GSP value; str(gsp) of an empty
\* cell is "nan", and nothing is logged when no tier matches.
load_lookup_etys_node(gsp, nodes) ==
    LET gsp_str == IF gsp = TextNaN THEN <<"n", "a", "n">> ELSE gsp
        exact_matches == ExactMatches(nodes, gsp)
        partial_matches5 == PrefixMatches(nodes, gsp_str, 5)
        partial_matches4 == PrefixMatches(nodes, gsp_str, 4)
    IN  IF gsp = <<>> THEN NoMatch(FALSE)
        ELSE IF exact_matches # <<>> THEN Returns(exact_matches[1])
        ELSE IF partial_matches5 # <<>> THEN Returns(partial_matches5[1])
        ELSE IF partial_matches4 # <<>> THEN Returns(partial_matches4[1])
        ELSE NoMatch(FALSE)

\* The lookup that the frame's rows go through.
LookupOf(frame_name, r, nodes) ==
    IF frame_name = "demand" THEN load_lookup_etys_node(r.Node_Name, nodes)
    ELSE plant_lookup_etys_node(r, nodes)

\* The loop after df.apply in add_etys_node logs this warning for a row: a
\* high capacity assigned to a node whose 5th character is not 2 or 4.
HighCapacityWarning(frame_name, r, etys_node) ==
    /\ frame_name # "demand"
    /\ etys_node # TextNaN
    /\ Len(etys_node) >= 5
    /\ Gt(Capacity(r), Num(GEN_CAPACITY_FOR_TRANSMISSION))
    /\ etys_node[5] \notin {"2", "4"}

NoRow ==
    [Node_Name |-> TextNaN, MW_Capacity |-> NoCell,
     MW_Import_Capacity |-> NoCell, MW_Export_Capacity |-> NoCell]

LookupIdle ==
    /\ nodes_df = <<>>
    /\ register = "none"
    /\ register_row = NoRow
    /\ ETYS_Node = TextNaN
    /\ unmatched_warning = FALSE
    /\ capacity_warning = FALSE
    /\ lpc = "idle"

\* The "Node" columns handed to a lookup: not empty (the callers skip the
\* lookup when nodes_df is empty), each node once.
Registries ==
    {t \in SeqsUpTo(RegistryKeys, MaxNodes) :
        /\ t # <<>>
        /\ \A i, j \in 1..Len(t) : t[i] = t[j] => i = j}

\* The register is the TEC register, the IC register or the demand data.
LookupInit ==
    /\ nodes_df \in Registries
    /\ register \in {"tec", "ic", "demand"}
    /\ register_row = NoRow
    /\ ETYS_Node = TextNaN
    /\ unmatched_warning = FALSE
    /\ capacity_warning = FALSE
    /\ lpc = "apply"

\* df.apply(lookup_etys_node) reaches the next row of the register: its
\* ETYS_Node is set and its warnings are logged, or the exception of the
\* lookup ends the apply.
ApplyLookup ==
    /\ lpc = "apply"
    /\ \E r \in RegisterRows(register) :
          LET out == LookupOf(register, r, nodes_df) IN
          /\ register_row' = r
          /\ IF out.raised
             THEN /\ lpc' = "raised"
                  /\ UNCHANGED <<ETYS_Node, unmatched_warning, capacity_warning>>
             ELSE /\ lpc' = "apply"
                  /\ ETYS_Node' = out.ret
                  /\ unmatched_warning' = out.warned
                  /\ capacity_warning' = HighCapacityWarning(register, r, out.ret)
    /\ UNCHANGED <<nodes_df, register>>

\* The register has no more rows: add_etys_node / add_etys_node_to_demand
\* returns the register with its ETYS_Node column.
ReturnFrame ==
    /\ lpc = "apply"
    /\ lpc' = "done"
    /\ UNCHANGED <<nodes_df, register, register_row, ETYS_Node,
                   unmatched_warning, capacity_warning>>

(* --------------------------- site names -------------------------------- *)
\* The registry handed to the site merge: "Node Name" values, sorted as
\* sort_values leaves them.  "ABCD" has no fifth character, so its voltage
\* is Unknown.
SiteNodeNames ==
    {<<"A", "B", "C", "D", "4", "A">>, <<"A", "B", "C", "D", "1", "A">>,
     <<"A", "B", "C", "D">>, <<"E", "F", "G", "H", "2", "A">>}

NodeFrames ==
    {Sorted(S) : S \in {T \in SUBSET SiteNodeNames :
                            T # {} /\ Cardinality(T) <= MaxSiteNodes}}

\* A row of an index sheet.  "Voltage (kV)" is a float cell, held in tenths
\* of a kV so that astype(int) has a fraction to drop.
SiteRecord(code, kv, name) ==
    [SiteCode |-> code, VoltagekV |-> kv, SiteName |-> name]

SiteRecords ==
    {SiteRecord(<<"A", "B", "C", "D">>, Num(4000), <<"X">>),
     SiteRecord(<<"A", "B", "C", "D">>, Num(1320), <<"Y">>),
     SiteRecord(<<"E", "F", "G", "H">>, Num(2755), <<"Z">>),
     SiteRecord(<<"A", "B", "C", "D", "E">>, Num(4000), <<"W">>),
     SiteRecord(<<"E", "F", "G", "H">>, NaN, <<"V">>),
     SiteRecord(<<"E", "F", "G", "H">>, Num(1320), TextNaN)}

\* The rows of the index sheets that have the three columns, in
\* INDEX_SHEETS order; <<>> when no index sheet is usable.
IndexTables == SeqsUpTo(SiteRecords, MaxSiteRecords)

\* astype(int) on a float cell, and astype(str) on the integer.
astype_int(cell) == cell.n \div 10

DigitChars == <<"0", "1", "2", "3", "4", "5", "6", "7", "8", "9">>

RECURSIVE IntStr(_)
IntStr(n) ==
    IF n < 10 THEN <<DigitChars[n + 1]>>
    ELSE IntStr(n \div 10) \o <<DigitChars[(n % 10) + 1]>>

\* df[["Site Code", "Voltage (kV)", "Site Name"]].dropna()
DropNa(rows) ==
    SelectSeq(rows, LAMBDA r : /\ r.SiteCode # TextNaN
                               /\ r.VoltagekV # NaN
                               /\ r.SiteName # TextNaN)

\* node_df["Merge Key"] and merge_data["Merge Key"].
NodeMergeKey(node) == Prefix(node, 4) \o <<"-">> \o derive_voltage(node)

SiteMergeKey(r) ==
    Prefix(r.SiteCode, 4) \o <<"-">> \o IntStr(astype_int(r.VoltagekV))

MergedRow(node, name) ==
    [NodeName |-> node, Voltage |-> derive_voltage(node),
     MergeKey |-> NodeMergeKey(node), SiteName |-> name]

\* The rows node_df.merge(merge_data, on="Merge Key", how="left") gives for
\* one node: one per record with its key, or one without a site name.
PrimaryRows(node, merge_data) ==
    LET hits == SelectSeq(merge_data,
                          LAMBDA r : SiteMergeKey(r) = NodeMergeKey(node))
    IN  IF hits = <<>> THEN <<MergedRow(node, TextNaN)>>
        ELSE [i \in 1..Len(hits) |-> MergedRow(node, hits[i].SiteName)]

RECURSIVE PrimaryMergeOf(_, _)
PrimaryMergeOf(nodes, merge_data) ==
    IF nodes = <<>> THEN <<>>
    ELSE PrimaryRows(nodes[1], merge_data)
         \o PrimaryMergeOf(Tail(nodes), merge_data)

\* secondary_merge["Site Name_y"]: no_match_df left-merged with merge_data
\* on the 4-character prefix, under a fresh 0..k-1 index.
SecondaryNames(row, merge_data) ==
    LET hits == SelectSeq(merge_data,
                          LAMBDA r : Prefix(r.SiteCode, 4)
                                        = Prefix(row.NodeName, 4))
    IN  IF hits = <<>> THEN <<TextNaN>>
        ELSE [i \in 1..Len(hits) |-> hits[i].SiteName]

RECURSIVE SecondaryMergeOf(_, _)
SecondaryMergeOf(no_match, merge_data) ==
    IF no_match = <<>> THEN <<>>
    ELSE SecondaryNames(no_match[1], merge_data)
         \o SecondaryMergeOf(Tail(no_match), merge_data)

\* merged_df.loc[isna, "Site Name"] = secondary_merge["Site Name_y"]: the
\* assignment aligns on index labels, so the row at position p takes the
\* p-th value of secondary_merge, or NaN when secondary_merge is shorter.
AssignSecondary(merged, merge_data) ==
    LET no_match == SelectSeq(merged, LAMBDA r : r.SiteName = TextNaN)
        names == SecondaryMergeOf(no_match, merge_data)
    IN  IF no_match = <<>> THEN merged
        ELSE [p \in 1..Len(merged) |->
                IF merged[p].SiteName = TextNaN
                THEN [merged[p] EXCEPT
                        !.SiteName = IF p <= Len(names) THEN names[p]
                                     ELSE TextNaN]
                ELSE merged[p]]

NodeNameUsed ==
    <<" ", "(", "N", "o", "d", "e", " ", "N", "a", "m", "e", " ",
      "u", "s", "e", "d", ")">>

\* merged_df.loc[isna, "Site Name"] = Node Name[:4] + " (Node Name used)"
AssignTertiary(merged) ==
    [p \in 1..Len(merged) |->
        IF merged[p].SiteName = TextNaN
        THEN [merged[p] EXCEPT
                !.SiteName = Prefix(merged[p].NodeName, 4) \o NodeNameUsed]
        ELSE merged[p]]

\* compile_site_name_mapping: site code (stripped) -> site name, a later
\* row replacing an earlier one; an empty code or name is skipped, a NaN
\* name is not.
RECURSIVE compile_site_name_mapping(_)
compile_site_name_mapping(rows) ==
    IF rows = <<>> THEN NoSiteNames
    ELSE LET mapping == compile_site_name_mapping(Front(rows))
             site_code == Strip(Last(rows).SiteCode)
             site_name == Last(rows).SiteName
         IN  IF site_code # <<>> /\ site_name # <<>>
             THEN [c \in DOMAIN mapping \cup {site_code} |->
                     IF c = site_code THEN site_name ELSE mapping[c]]
             ELSE mapping

\* The registry compile_node_info hands on for a list of nodes.
RegistryOf(nodes) ==
    [i \in 1..Len(nodes) |-> NodeRow(nodes[i], {CIRCUIT_SHEETS[1]})]

\* The coordinates CSV as the site merge can find it: also with two site
\* codes of one prefix, and with a site code written with a blank.
SiteCoordinateFiles ==
    CoordinateFiles
    \cup {[readable |-> TRUE, rows |-> t] :
            t \in {<<CoordRow(<<"A", "B", "C", "D">>, 1),
                     CoordRow(<<"A", "B", "C", "D", "E">>, 2)>>,
                   <<CoordRow(<<"A", "B", "C", "D", " ">>, 1),
                     CoordRow(<<"A", "B", "C", "D">>, 2)>>}}

\* coordinates_data of bus_ids.py: "Site Code" stripped, "Site Prefix" its
\* first four characters, then drop_duplicates(subset="Site Code",
\* keep="first").
ScriptCoordRow(r) ==
    [SiteCode |-> Strip(r.SiteCode), SitePrefix |-> Prefix(Strip(r.SiteCode), 4),
     latitude |-> r.latitude]

RECURSIVE drop_duplicates(_)
drop_duplicates(rows) ==
    IF rows = <<>> THEN <<>>
    ELSE LET kept == drop_duplicates(Front(rows))
         IN  IF \E i \in 1..Len(kept) : kept[i].SiteCode = Last(rows).SiteCode
             THEN kept
             ELSE Append(kept, Last(rows))

coordinates_data_of(file) ==
    drop_duplicates([i \in 1..Len(file.rows) |-> ScriptCoordRow(file.rows[i])])

\* "Full Name": site name and voltage, or "Unknown" for an empty site name.
FullName(row) ==
    IF row.SiteName # <<>> THEN row.SiteName \o <<" ">> \o row.Voltage \o <<"k", "V">>
    ELSE Unknown

\* The rows merged_df.merge(coordinates_data, left_on="Node Prefix",
\* right_on="Site Prefix", how="left") gives for one row of merged_df.
BusIdRows(row, coords) ==
    LET hits == SelectSeq(coords,
                          LAMBDA c : c.SitePrefix = Prefix(row.NodeName, 4))
        out(lat) == [NodeName |-> row.NodeName, Voltage |-> row.Voltage,
                     SiteName |-> row.SiteName, latitude |-> lat,
                     FullName |-> FullName(row)]
    IN  IF hits = <<>> THEN <<out(NaN)>>
        ELSE [i \in 1..Len(hits) |-> out(hits[i].latitude)]

RECURSIVE BusIdsOf(_, _)
BusIdsOf(merged, coords) ==
    IF merged = <<>> THEN <<>>
    ELSE BusIdRows(merged[1], coords) \o BusIdsOf(Tail(merged), coords)

SiteIdle ==
    /\ node_df = <<>>
    /\ index_data = <<>>
    /\ merged_df = <<>>
    /\ bpc = "idle"
    /\ site_name_mapping = NoSiteNames
    /\ site_nodes_df = <<>>
    /\ mpc = "idle"
    /\ coordinates_data = [readable |-> FALSE, rows |-> <<>>]
    /\ bus_ids_df = <<>>

SiteInit ==
    /\ node_df \in NodeFrames
    /\ index_data \in IndexTables
    /\ merged_df = <<>>
    /\ bpc = "start"
    /\ site_name_mapping = NoSiteNames
    /\ site_nodes_df = <<>>
    /\ mpc = "start"
    /\ coordinates_data \in SiteCoordinateFiles
    /\ bus_ids_df = <<>>

\* bus_ids.py: merge_data is built and the primary merge is made; with no
\* usable index sheet merge_data has no "Site Code" column and the script
\* ends in its except clause.
PrimaryMerge ==
    /\ bpc = "start"
    /\ IF index_data = <<>>
       THEN /\ bpc' = "raised"
            /\ UNCHANGED merged_df
       ELSE /\ merged_df' = PrimaryMergeOf(node_df, DropNa(index_data))
            /\ bpc' = "primary"
    /\ UNCHANGED <<node_df, index_data, coordinates_data, bus_ids_df, siteMapVars>>

\* bus_ids.py: the secondary merge, made when a site name is missing.
SecondaryMerge ==
    /\ bpc = "primary"
    /\ merged_df' = AssignSecondary(merged_df, DropNa(index_data))
    /\ bpc' = "secondary"
    /\ UNCHANGED <<node_df, index_data, coordinates_data, bus_ids_df, siteMapVars>>

\* bus_ids.py: the names still missing are made from the node name.
TertiaryFill ==
    /\ bpc = "secondary"
    /\ merged_df' = AssignTertiary(merged_df)
    /\ bpc' = "done"
    /\ UNCHANGED <<node_df, index_data, coordinates_data, bus_ids_df, siteMapVars>>

\* bus_ids.py: the coordinates CSV is read, deduplicated and merged on the
\* 4-character prefix, and bus_ids_df is written; a CSV that cannot be read
\* ends the script in its except clause.
AttachCoordinates ==
    /\ bpc = "done"
    /\ IF coordinates_data.readable
       THEN /\ bus_ids_df' = BusIdsOf(merged_df,
                                      coordinates_data_of(coordinates_data))
            /\ bpc' = "written"
       ELSE /\ bpc' = "raised"
            /\ UNCHANGED bus_ids_df
    /\ UNCHANGED <<node_df, index_data, coordinates_data, merged_df, siteMapVars>>

\* get_network_data: compile_site_name_mapping over the index sheets.
CompileSiteNameMapping ==
    /\ mpc = "start"
    /\ site_name_mapping' = compile_site_name_mapping(index_data)
    /\ mpc' = "compiled"
    /\ UNCHANGED <<node_df, index_data, merged_df, bpc, site_nodes_df,
                   coordinates_data, bus_ids_df>>

\* get_network_data: add_coordinates_and_site_name_to_nodes with the
\* compiled mapping and the coordinates file.
AddSiteNames ==
    /\ mpc = "compiled"
    /\ site_nodes_df' =
          add_coordinates_and_site_name_to_nodes(RegistryOf(node_df),
                                                 coordinates_data,
                                                 site_name_mapping)
    /\ mpc' = "mapped"
    /\ UNCHANGED <<node_df, index_data, merged_df, bpc, site_name_mapping,
                   coordinates_data, bus_ids_df>>

(* --------------------- groups by type, missing nodes ------------------- *)
TokA1Blank == <<"A", "B", "C", "D", "1", " ">>

\* A reconciled row with the cell of its kind's type column ("Circuit
\* Type", "Transformer Type" or "Compensation Type"): a text, NaN, or Absent
\* in a frame that has no such column.
TypedRow(n1, n2, n, sheet, type) ==
    [Node1 |-> n1, Node2 |-> n2, Node |-> n, Sheet_Name |-> sheet, Type |-> type]

TypeOHL == <<"O", "H", "L">>
TypeReactor == <<"R", "e", "a", "c", "t", "o", "r">>
TypeTransformer ==
    <<"T", "r", "a", "n", "s", "f", "o", "r", "m", "e", "r">>

CircuitEnds == {<<TokA4, TokA1>>, <<TokA4Blank, TokE2>>}

CircuitTypedRows(types) ==
    {TypedRow(e[1], e[2], Absent, SheetName("2", "1", "a"), t) :
        e \in CircuitEnds, t \in types}

\* concatenate_and_process_sheets sets "Transformer Type" to "Transformer" on
\* every transformer row.
TransformerTypedRows ==
    {TypedRow(TokA4, TokA1, Absent, SheetName("3", "1", "c"), TypeTransformer)}

ReactiveTypedRows(types) ==
    {TypedRow(Absent, Absent, n, SheetName("4", "1", "a"), t) :
        n \in {TokA1, TokA1Blank}, t \in types}

\* The frames of one kind: with the type column, or without it.
TypedFrames(typed, untyped) ==
    SeqsUpTo(typed, MaxAssetRows) \cup SeqsUpTo(untyped, MaxAssetRows)

\* split_data_by_type(df, column): type value -> the rows with it.
split_data_by_type(frame) ==
    LET unique_values == {frame[i].Type : i \in 1..Len(frame)} \ {TextNaN, Absent}
    IN  [val \in unique_values |-> SelectSeq(frame, LAMBDA r : r.Type = val)]

\* dict.update: the keys of other replace those of dict.
Update(dict, other) ==
    [k \in DOMAIN dict \cup DOMAIN other |->
        IF k \in DOMAIN other THEN other[k] ELSE dict[k]]

\* The "Node 1" and "Node 2" cells of a frame that are not NaN.
ExtractedNodes(frame) ==
    UNION {{frame[i].Node1, frame[i].Node2} \ {TextNaN, Absent} :
              i \in 1..Len(frame)}

\* extract_branches_and_nodes: the nodes of the circuit and transformer
\* frames.
extract_branches_and_nodes(circuits, transformers) ==
    ExtractedNodes(circuits) \cup ExtractedNodes(transformers)

AssembleIdle ==
    /\ filtered_dataframes = <<>>
    /\ missing_nodes = {}
    /\ apc = "idle"

\* get_network_data with its three frames filtered.
AssembleInit ==
    /\ all_sheets_data = <<>>
    /\ selected_tags = {}
    /\ coordinates_file =
          [readable |-> TRUE, rows |-> <<CoordRow(<<"A", "B", "C", "D">>, 1)>>]
    /\ circuit_data = <<>>
    /\ transformer_data = <<>>
    /\ reactive_data = <<>>
    /\ circuit_data_filtered \in
          TypedFrames(CircuitTypedRows({TypeOHL, TypeReactor, TextNaN}),
                      CircuitTypedRows({Absent}))
    /\ transformer_data_filtered \in SeqsUpTo(TransformerTypedRows, MaxAssetRows)
    /\ reactive_data_filtered \in
          TypedFrames(ReactiveTypedRows({TypeReactor, TextNaN}),
                      ReactiveTypedRows({Absent}))
    /\ all_nodes_df = <<>>
    /\ npc = "filtered"
    /\ filtered_dataframes = <<>>
    /\ missing_nodes = {}
    /\ apc = "start"

\* get_network_data: the three split_data_by_type results put into one dict.
SplitDataByType ==
    /\ apc = "start"
    /\ npc = "filtered"
    /\ filtered_dataframes' =
          Update(Update(split_data_by_type(circuit_data_filtered),
                        split_data_by_type(transformer_data_filtered)),
                 split_data_by_type(reactive_data_filtered))
    /\ apc' = "split"
    /\ UNCHANGED <<netVars, missing_nodes>>

\* isolated_nodes_network_data.py: the nodes of the circuit and transformer
\* frames that the registry does not hold are logged and printed.
ReportMissingNodes ==
    /\ apc = "split"
    /\ npc = "returned"
    /\ missing_nodes' =
          extract_branches_and_nodes(circuit_data_filtered,
                                     transformer_data_filtered)
             \ {all_nodes_df[i].Node : i \in 1..Len(all_nodes_df)}
    /\ apc' = "validated"
    /\ UNCHANGED <<netVars, filtered_dataframes>>

(* ----------------------------- plant data ------------------------------ *)
\* A register or mapping CSV, by the columns it has; load_csv gives a frame
\* without columns for a file it cannot read.
RegisterFrames == SUBSET {"Project Number", "MW Effective From"}
MappingFrames == SUBSET {"Project Number", "Node_Name"}

\* What get_network_data gives process_plant_data: a registry, an empty
\* registry, or an exception.
NetworkOutcomes == {"nodes", "empty", "raises"}

\* Variant of merge_mapping_with_register without the "Node_Name" check.
merge_mapping_with_register_AnyMapping(register_df, mapping_df) ==
    IF "Project Number" \notin register_df \/ "Project Number" \notin mapping_df
    THEN [exit |-> TRUE, columns |-> {}]
    ELSE [exit |-> FALSE, columns |-> register_df \cup {"Node_Name"}]

\* merge_mapping_with_register: sys.exit() when a key column is missing,
\* else the register with "Node_Name" added.
merge_mapping_with_register(register_df, mapping_df) ==
    IF "Project Number" \notin register_df \/ "Project Number" \notin mapping_df
    THEN [exit |-> TRUE, columns |-> {}]
    ELSE IF "Node_Name" \notin mapping_df
    THEN [exit |-> TRUE, columns |-> {}]
    ELSE [exit |-> FALSE, columns |-> register_df \cup {"Node_Name"}]

PlantIdle ==
    /\ tec_register_df = {}
    /\ tec_mapping_df = {}
    /\ ic_register_df = {}
    /\ ic_mapping_df = {}
    /\ network_outcome = "empty"
    /\ lookup_raises = FALSE
    /\ tec_merged = {}
    /\ ic_merged = {}
    /\ plant_output = "none"
    /\ ppc = "idle"

PlantInit ==
    /\ tec_register_df \in RegisterFrames
    /\ tec_mapping_df \in MappingFrames
    /\ ic_register_df \in RegisterFrames
    /\ ic_mapping_df \in MappingFrames
    /\ network_outcome \in NetworkOutcomes
    /\ lookup_raises \in BOOLEAN
    /\ tec_merged = {}
    /\ ic_merged = {}
    /\ plant_output = "none"
    /\ ppc = "load"

\* process_plant_data: the TEC register is merged with its mapping.
MergeTec ==
    /\ ppc = "load"
    /\ LET merged == merge_mapping_with_register(tec_register_df, tec_mapping_df)
       IN  IF merged.exit
           THEN /\ ppc' = "exited"
                /\ UNCHANGED tec_merged
           ELSE /\ ppc' = "tec"
                /\ tec_merged' = merged.columns
    /\ UNCHANGED <<plantInputs, ic_merged, plant_output>>

\* process_plant_data: the IC register is merged with its mapping.
MergeIc ==
    /\ ppc = "tec"
    /\ LET merged == merge_mapping_with_register(ic_register_df, ic_mapping_df)
       IN  IF merged.exit
           THEN /\ ppc' = "exited"
                /\ UNCHANGED ic_merged
           ELSE /\ ppc' = "merged"
                /\ ic_merged' = merged.columns
    /\ UNCHANGED <<plantInputs, tec_merged, plant_output>>

\* filter_by_selected_regions, clean_register_data and
\* clean_ic_register_data: clean_register_data calls sys.exit() without
\* "MW Effective From"; clean_ic_register_data only warns.
CleanRegisters ==
    /\ ppc = "merged"
    /\ IF "MW Effective From" \notin tec_merged
       THEN /\ ppc' = "exited"
            /\ UNCHANGED <<tec_merged, ic_merged>>
       ELSE /\ ppc' = "cleaned"
            /\ tec_merged' = tec_merged \cup {"MW_Capacity"}
            /\ ic_merged' = ic_merged \cup {"MW_Import_Capacity",
                                           "MW_Export_Capacity"}
    /\ UNCHANGED <<plantInputs, plant_output>>

\* get_network_data and add_etys_node on both registers; an exception of
\* either is caught in main, which logs it and writes nothing.
AddEtysNodes ==
    /\ ppc = "cleaned"
    /\ IF network_outcome = "raises" \/ (network_outcome = "nodes" /\ lookup_raises)
       THEN /\ ppc' = "failed"
            /\ UNCHANGED <<tec_merged, ic_merged>>
       ELSE /\ ppc' = "processed"
            /\ IF network_outcome = "nodes"
               THEN /\ tec_merged' = tec_merged \cup {"ETYS_Node"}
                    /\ ic_merged' = ic_merged \cup {"ETYS_Node"}
               ELSE UNCHANGED <<tec_merged, ic_merged>>
    /\ UNCHANGED <<plantInputs, plant_output>>

\* main: both registers are written to the output workbook.
WritePlantOutput ==
    /\ ppc = "processed"
    /\ plant_output' = "written"
    /\ ppc' = "done"
    /\ UNCHANGED <<plantInputs, tec_merged, ic_merged>>

\* The variables of the other components, which the filters leave alone.
extVars == <<voltageVars, netVars, lookupVars, siteVars, assembleVars,
             plantVars>>

extVarsButPlant == <<voltageVars, netVars, lookupVars, siteVars, assembleVars>>

ExtIdle == VoltageIdle /\ NetIdle /\ LookupIdle /\ SiteIdle /\ AssembleIdle
           /\ PlantIdle

Init == FilterInit /\ HvdcIdle /\ ExtIdle

\* The filter on a DataFrame of arbitrary rows.
Next ==
    \/ Iterate(RowsOf(is_reactive), MaxLen) /\ UNCHANGED <<hvdcVars, extVars>>
    \/ Return /\ UNCHANGED <<hvdcVars, extVars>>

Spec == Init /\ [][Next]_vars

\* The filter on the rows of one key.
NextKey ==
    \/ Iterate(KeyRows(is_reactive), MaxKeyLen) /\ UNCHANGED <<hvdcVars, extVars>>
    \/ Return /\ UNCHANGED <<hvdcVars, extVars>>

SpecKey == Init /\ [][NextKey]_vars

InitHVDC == FilterIdle /\ HvdcInit /\ ExtIdle

NextHVDC ==
    \/ ReadHvdcRow /\ UNCHANGED <<filterVars, extVars>>
    \/ ProcessIntraHvdc /\ UNCHANGED <<filterVars, extVars>>

SpecHVDC == InitHVDC /\ [][NextHVDC]_vars

InitVoltage == FilterIdle /\ HvdcIdle /\ VoltageInit /\ NetIdle /\ LookupIdle /\ SiteIdle
    /\ AssembleIdle /\ PlantIdle

NextVoltage == DeriveVoltage /\ UNCHANGED <<filterVars, hvdcVars, netVars, lookupVars, siteVars,
                 assembleVars, plantVars>>

SpecVoltage == InitVoltage /\ [][NextVoltage]_vars

InitNet == NetFilterInit /\ HvdcIdle /\ VoltageIdle /\ NetInit /\ LookupIdle /\ SiteIdle
    /\ AssembleIdle /\ PlantIdle

NextNet ==
    \/ ParseRow /\ UNCHANGED <<filterVars, hvdcVars, voltageVars, lookupVars, siteVars,
                 assembleVars, plantVars>>
    \/ ConcatenateAndProcessSheets /\ UNCHANGED <<filterVars, hvdcVars, voltageVars, lookupVars, siteVars,
                 assembleVars, plantVars>>
    \/ FilterNetworkData /\ UNCHANGED <<filterVars, hvdcVars, voltageVars, lookupVars, siteVars,
                 assembleVars, plantVars>>
    \/ CompileNodeInfo /\ UNCHANGED <<filterVars, hvdcVars, voltageVars, lookupVars, siteVars,
                 assembleVars, plantVars>>
    \/ AddCoordinates /\ UNCHANGED <<filterVars, hvdcVars, voltageVars, lookupVars, siteVars,
                 assembleVars, plantVars>>

SpecNet == InitNet /\ [][NextNet]_vars

InitLookup == FilterIdle /\ HvdcIdle /\ VoltageIdle /\ NetIdle /\ LookupInit /\ SiteIdle
    /\ AssembleIdle /\ PlantIdle

NextLookup ==
    \/ ApplyLookup /\ UNCHANGED <<filterVars, hvdcVars, voltageVars, netVars, siteVars,
                 assembleVars, plantVars>>
    \/ ReturnFrame /\ UNCHANGED <<filterVars, hvdcVars, voltageVars, netVars, siteVars,
                 assembleVars, plantVars>>

SpecLookup == InitLookup /\ [][NextLookup]_vars

InitSite == FilterIdle /\ HvdcIdle /\ VoltageIdle /\ NetIdle /\ LookupIdle /\ SiteInit
    /\ AssembleIdle /\ PlantIdle

NextSite ==
    \/ PrimaryMerge /\ UNCHANGED <<filterVars, hvdcVars, voltageVars, netVars, lookupVars,
                 assembleVars, plantVars>>
    \/ SecondaryMerge /\ UNCHANGED <<filterVars, hvdcVars, voltageVars, netVars, lookupVars,
                 assembleVars, plantVars>>
    \/ TertiaryFill /\ UNCHANGED <<filterVars, hvdcVars, voltageVars, netVars, lookupVars,
                 assembleVars, plantVars>>
    \/ AttachCoordinates /\ UNCHANGED <<filterVars, hvdcVars, voltageVars, netVars, lookupVars,
                 assembleVars, plantVars>>
    \/ CompileSiteNameMapping /\ UNCHANGED <<filterVars, hvdcVars, voltageVars, netVars, lookupVars,
                 assembleVars, plantVars>>
    \/ AddSiteNames /\ UNCHANGED <<filterVars, hvdcVars, voltageVars, netVars, lookupVars,
                 assembleVars, plantVars>>

SpecSite == InitSite /\ [][NextSite]_vars

InitAssemble ==
    FilterIdle /\ HvdcIdle /\ VoltageIdle /\ AssembleInit /\ LookupIdle /\ SiteIdle
    /\ PlantIdle

NextAssemble ==
    \/ SplitDataByType
          /\ UNCHANGED <<filterVars, hvdcVars, voltageVars, lookupVars, siteVars, plantVars>>
    \/ CompileNodeInfo /\ apc = "split"
          /\ UNCHANGED <<filterVars, hvdcVars, voltageVars, lookupVars, siteVars,
                         assembleVars, plantVars>>
    \/ AddCoordinates
          /\ UNCHANGED <<filterVars, hvdcVars, voltageVars, lookupVars, siteVars,
                         assembleVars, plantVars>>
    \/ ReportMissingNodes
          /\ UNCHANGED <<filterVars, hvdcVars, voltageVars, lookupVars, siteVars, plantVars>>

SpecAssemble == InitAssemble /\ [][NextAssemble]_vars

InitPlant ==
    FilterIdle /\ HvdcIdle /\ VoltageIdle /\ NetIdle /\ LookupIdle /\ SiteIdle
    /\ AssembleIdle /\ PlantInit

NextPlant ==
    \/ MergeTec /\ UNCHANGED <<filterVars, hvdcVars, extVarsButPlant>>
    \/ MergeIc /\ UNCHANGED <<filterVars, hvdcVars, extVarsButPlant>>
    \/ CleanRegisters /\ UNCHANGED <<filterVars, hvdcVars, extVarsButPlant>>
    \/ AddEtysNodes /\ UNCHANGED <<filterVars, hvdcVars, extVarsButPlant>>
    \/ WritePlantOutput /\ UNCHANGED <<filterVars, hvdcVars, extVarsButPlant>>

SpecPlant == InitPlant /\ [][NextPlant]_vars

(* ============================== claims ================================= *)
\* The identity key of a row: the ordered endpoint pair, or the single node.
KeyOf(r) == IF is_reactive THEN <<r.Node>> ELSE <<r.Node1, r.Node2>>

\* The row carries a numeric year.
HasYear(r) == r.Year.tag = "num"

\* The row has status text tag and a numeric year Y <= T.
Effective(r, tag) == r.Status = Str(tag) /\ HasYear(r) /\ r.Year.n <= year

\* The loop has processed the last row of df and did not raise on it.
Processed == pc \in {"loop", "done"} /\ Len(df) > 0

\* This step is one loop iteration; the row it processes is Last(df').
Stepping == Len(df') = Len(df) + 1

\* C1: a row whose Status is missing or whose Year is missing is appended to
\* the admitted list when it is processed, whatever the target year and
\* whatever the other cell holds, and no error is raised.
C1_MissingAdmitted ==
    [][(Stepping /\ (IsNa(Last(df').Status) \/ IsNa(Last(df').Year)))
         => (filtered_rows' = Append(filtered_rows, Last(df')) /\ pc' = "loop")]_vars

\* C1 witness: a row without status and with year 12 was admitted at T = 5.
C1_Witness ==
    /\ Processed
    /\ year = 5
    /\ IsNa(Last(df).Status)
    /\ Last(df).Year = Num(12)
    /\ Len(filtered_rows) > 0
    /\ Last(filtered_rows) = Last(df)

\* C2: after a row with the removing status and year Y <= T is processed, no
\* admitted row has its key: every earlier admitted row with that key is
\* deleted and the row itself is not admitted.  In particular the input
\* [Addition(5,K), Remove(6,K)] with T = 10 leaves no row with key K.
C2_RemoveDeletes ==
    (Processed /\ Effective(Last(df), RemoveTag(variant)))
        => \A r \in Rows(filtered_rows) : KeyOf(r) /= KeyOf(Last(df))

\* C2 witness: the input [Addition(5,K), Remove(6,K)] with T = 10, done.
C2_Witness ==
    /\ pc = "done"
    /\ year = 10
    /\ Len(df) = 2
    /\ df[1].Status = Str("Addition") /\ df[1].Year = Num(5)
    /\ df[2].Status = Str(RemoveTag(variant)) /\ df[2].Year = Num(6)
    /\ KeyOf(df[1]) = KeyOf(df[2])
    /\ filtered_rows = <<>>

\* The input [Addition(5,K), Change(6,K), Addition(12,K)] with T = 10.
ChangeExample ==
    /\ pc \in {"loop", "done"}
    /\ year = 10
    /\ Len(df) = 3
    /\ df[1].Status = Str("Addition") /\ df[1].Year = Num(5)
    /\ df[2].Status = Str("Change") /\ df[2].Year = Num(6)
    /\ df[3].Status = Str("Addition") /\ df[3].Year = Num(12)
    /\ KeyOf(df[1]) = KeyOf(df[2])
    /\ KeyOf(df[2]) = KeyOf(df[3])

\* C3: after a "Change" row with year Y <= T is processed it is the last
\* admitted row and no other admitted row has its key; for the input
\* [Addition(5,K), Change(6,K), Addition(12,K)] with T = 10 the output is
\* exactly the Change row.
C3_ChangeReplaces ==
    /\ (Processed /\ Effective(Last(df), "Change"))
          => /\ Len(filtered_rows) > 0
             /\ Last(filtered_rows) = Last(df)
             /\ \A i \in 1..(Len(filtered_rows) - 1) :
                   KeyOf(filtered_rows[i]) /= KeyOf(Last(df))
    /\ ChangeExample => filtered_rows = <<df[2]>>

\* C3 witness: the three-row example has been filtered and returned.
C3_Witness == ChangeExample /\ pc = "done" /\ filtered_rows = <<df[2]>>

\* C4: an "Existing" row that carries a year Y <= T is admitted.
C4_ExistingAdmitted ==
    (Processed /\ Effective(Last(df), "Existing"))
        => (Len(filtered_rows) > 0 /\ Last(filtered_rows) = Last(df))

\* C5: processing a row with a status and a year Y > T leaves the admitted
\* list unchanged: the row is not admitted and nothing is deleted.
C5_FutureDropped ==
    [][(Stepping /\ ~IsNa(Last(df').Status) /\ HasYear(Last(df'))
          /\ Last(df').Year.n > year)
         => (filtered_rows' = filtered_rows /\ pc' = "loop")]_vars

\* C5 witness: a "Change" row of year 12 was processed at T = 10 while a row
\* with its key was admitted, and that row is still the whole list.
C5_Witness ==
    /\ Processed
    /\ year = 10
    /\ Len(df) = 2
    /\ df[2].Status = Str("Change") /\ df[2].Year = Num(12)
    /\ KeyOf(df[1]) = KeyOf(df[2])
    /\ filtered_rows = <<df[1]>>

C7_MalformedYearAdmitted ==
    (Len(df) > 0 /\ Last(df).Year.tag = "str")
        => /\ pc /= "raised"
           /\ Len(filtered_rows) > 0
           /\ Last(filtered_rows) = Last(df)

\* C7, planned-year filter: a row whose "Planned from year" is a text that
\* is no number is kept by filter_by_planned_year.
PlannedMalformedKept ==
    hpc = "done"
        => \A i \in 1..Len(hvdc_df) :
              (hvdc_df[i].tag = "str")
                  => \E j \in 1..Len(hvdc_out) : hvdc_out[j].name = i

\* C8: a row with status "Addition" and year <= T that is processed at target
\* year T is also admitted when the same input is filtered with any larger
\* target year.
C8_AdditionMonotone ==
    (Processed /\ Effective(Last(df), "Addition"))
        => \A T2 \in Targets :
              T2 > year
                  => LET out == FilterRun(df, T2, variant, is_reactive)
                     IN  Len(out) > 0 /\ Last(out) = Last(df)

\* C8 witness: at T = 5 an Addition of year 5 was admitted after a removing
\* row of year 6 (not yet in effect at 5, in effect at 10) with the same key.
C8_Witness ==
    /\ Processed
    /\ year = 5
    /\ Len(df) = 2
    /\ df[1].Status = Str(RemoveTag(variant)) /\ df[1].Year = Num(6)
    /\ df[2].Status = Str("Addition") /\ df[2].Year = Num(5)
    /\ KeyOf(df[1]) = KeyOf(df[2])
    /\ filtered_rows = <<df[2]>>

\* C9: the admitted list is a subsequence of the input: each admitted row is
\* the unmodified input row with its index label, and labels increase along
\* the list.
C9_OutputSubsequence ==
    \A i \in 1..Len(filtered_rows) :
        /\ filtered_rows[i].name \in 1..Len(df)
        /\ df[filtered_rows[i].name] = filtered_rows[i]
        /\ (i < Len(filtered_rows)
              => filtered_rows[i].name < filtered_rows[i + 1].name)

\* C9 witness: the first of two input rows was admitted and then deleted by
\* the second, a Change: the output is input row 2 alone.
C9_Witness ==
    /\ pc = "done"
    /\ Len(df) = 2
    /\ IsNa(df[1].Status)
    /\ Effective(df[2], "Change")
    /\ KeyOf(df[1]) = KeyOf(df[2])
    /\ filtered_rows = <<df[2]>>

\* C10: for two-endpoint rows, processing a removing or "Change" row with key
\* (A,B), A /= B, in effect deletes no admitted row whose key is (B,A).
C10_ReversedKeyKept ==
    [][(/\ Stepping
        /\ ~is_reactive
        /\ Last(df').Node1 /= Last(df').Node2
        /\ (Effective(Last(df'), RemoveTag(variant)) \/ Effective(Last(df'), "Change")))
         => \A i \in 1..Len(filtered_rows) :
               (/\ filtered_rows[i].Node1 = Last(df').Node2
                /\ filtered_rows[i].Node2 = Last(df').Node1)
                   => filtered_rows[i] \in Rows(filtered_rows')]_vars

\* C10 witness: [Addition (B,A), Remove (A,B)], both in effect: the (B,A) row
\* is still admitted.
C10_Witness ==
    /\ Processed
    /\ ~is_reactive
    /\ Len(df) = 2
    /\ Effective(df[1], "Addition") /\ df[1].Node1 = "B" /\ df[1].Node2 = "A"
    /\ Effective(df[2], RemoveTag(variant))
    /\ df[2].Node1 = "A" /\ df[2].Node2 = "B"
    /\ filtered_rows = <<df[1]>>


\* The place of a sheet in a sheet list.
PlaceIn(list, sheet) == CHOOSE i \in 1..Len(list) : list[i] = sheet

\* The sheets of a list that the workbook holds and whose authority is selected.
Retained(list) ==
    {sh \in DOMAIN all_sheets_data :
        /\ sh \in Rows(list)
        /\ SHEET_ASSOCIATIONS(Last(sh)) \in selected_tags}

\* The same cells, whatever the index label and the stamp.
SameCells(r, raw) ==
    /\ r.Status = raw.Status
    /\ r.Year = raw.Year
    /\ r.Node1 = raw.Node1
    /\ r.Node2 = raw.Node2
    /\ r.Node = raw.Node

\* data is the retained sheets of list one after the other in list order,
\* each with its rows in sheet order and stamped with the sheet.
InListOrder(data, list) ==
    /\ \A i \in 1..Len(data) : data[i].Sheet_Name \in Retained(list)
    /\ \A i, j \in 1..Len(data) :
          i < j => PlaceIn(list, data[i].Sheet_Name) <= PlaceIn(list, data[j].Sheet_Name)
    /\ \A sh \in Retained(list) :
          LET part == SelectSeq(data, LAMBDA r : r.Sheet_Name = sh)
          IN  /\ Len(part) = Len(all_sheets_data[sh])
              /\ \A i \in 1..Len(part) : SameCells(part[i], all_sheets_data[sh][i])

\* The admitted list after the rows i.. of data have been processed in turn.
RECURSIVE ProcessedInTurn(_, _, _, _)
ProcessedInTurn(data, i, admitted, reactive) ==
    IF i > Len(data) THEN admitted
    ELSE ProcessedInTurn(data, i + 1,
                         FilterRow(admitted, data[i], year, variant, reactive),
                         reactive)

\* C11: concatenate_sheets returns the records of the retained groups of one
\* asset kind in a stable order (groups in the order of the kind's sheet
\* list, rows inside a group in their original order), each stamped with
\* its group, and the filter processes them in this order.
C11_NormalizerOrdering ==
    /\ npc \in {"concatenated", "filtered", "compiled", "returned"} =>
          /\ InListOrder(circuit_data, CIRCUIT_SHEETS)
          /\ InListOrder(transformer_data, TRANSFORMER_SHEETS)
          /\ InListOrder(reactive_data, REACTIVE_SHEETS)
    /\ npc \in {"filtered", "compiled", "returned"} =>
          /\ circuit_data_filtered =
                ProcessedInTurn(circuit_data, 1, <<>>, FALSE)
          /\ transformer_data_filtered =
                ProcessedInTurn(transformer_data, 1, <<>>, FALSE)
          /\ reactive_data_filtered =
                ProcessedInTurn(reactive_data, 1, <<>>, TRUE)

\* A circuit of sheet B-2-1a is removed by a row of sheet B-2-2c, which
\* comes later in CIRCUIT_SHEETS.
C11_Witness ==
    /\ npc = "filtered"
    /\ Len(circuit_data) = 2
    /\ circuit_data[1].Sheet_Name = SheetName("2", "1", "a")
    /\ circuit_data[2].Sheet_Name = SheetName("2", "2", "c")
    /\ circuit_data[1].Status = NaN
    /\ circuit_data[2].Status = Str("Removed")
    /\ circuit_data[1].Node1 = circuit_data[2].Node1
    /\ circuit_data[1].Node2 = circuit_data[2].Node2
    /\ circuit_data_filtered = <<>>

\* The digit -> kV table of the node naming convention.
KvOfDigit(ch) ==
    CASE ch = "1" -> <<"1", "3", "2">>
      [] ch = "2" -> <<"2", "7", "5">>
      [] ch = "3" -> <<"3", "3">>
      [] ch = "4" -> <<"4", "0", "0">>
      [] ch = "5" -> <<"1", "1">>
      [] ch = "6" -> <<"6", "6">>
      [] ch = "7" -> <<"2", "5">>
      [] ch = "8" -> <<"2", "2">>

\* C12: derive_voltage returns the table entry of the 5th character when
\* the token has at least 5 characters and the 5th is one of the digits
\* 1..8, and Unknown in every other case (shorter token, 5th character not
\* a digit, digits 0 and 9); "ABCD4XX" gives "400", "AB12" gives Unknown.
C12_VoltageDerivation ==
    vpc = "done" =>
        /\ voltage = (IF Len(node_name) >= 5
                          /\ node_name[5] \in {"1", "2", "3", "4", "5", "6", "7", "8"}
                       THEN KvOfDigit(node_name[5])
                       ELSE <<"U", "n", "k", "n", "o", "w", "n">>)
        /\ (node_name = <<"A", "B", "C", "D", "4", "X", "X">>
                => voltage = <<"4", "0", "0">>)
        /\ (node_name = <<"A", "B", "1", "2">>
                => voltage = <<"U", "n", "k", "n", "o", "w", "n">>)

\* "ABCD4XX" has been mapped to "400".
C12_Witness ==
    /\ vpc = "done"
    /\ node_name = <<"A", "B", "C", "D", "4", "X", "X">>
    /\ voltage = <<"4", "0", "0">>

\* The endpoint cells of a reconciled record that hold a token.
EndpointTokens(r) == {r.Node1, r.Node2, r.Node} \ {Absent, TextNaN}

\* The reconciled circuit, transformer and reactive records.
Reconciled ==
    Rows(circuit_data_filtered) \cup Rows(transformer_data_filtered)
    \cup Rows(reactive_data_filtered)

\* The rows of the registry for one token.
RegistryRows(t) == {i \in 1..Len(all_nodes_df) : all_nodes_df[i].Node = t}

\* C13: the node registry returned by get_network_data (coordinates and site
\* names attached) has exactly one row for each distinct endpoint token of
\* the reconciled circuit, transformer and reactive records, and no row for
\* a token that appears only in dropped or removed records.
C13_RegistryExactlyOne ==
    npc = "returned" =>
        LET tokens == UNION {EndpointTokens(r) : r \in Reconciled}
        IN  /\ \A t \in tokens : Cardinality(RegistryRows(t)) = 1
            /\ \A i \in 1..Len(all_nodes_df) : all_nodes_df[i].Node \in tokens

\* The origin groups of the reconciled records that have token t among
\* their endpoint cells, the cells read through spell.
GroupsOf(t, spell(_)) ==
    {r.Sheet_Name : r \in {x \in Reconciled :
                              t \in {spell(c) : c \in EndpointTokens(x)}}}

\* The registry row gives groups as its sorted, comma-joined 'Sheet Names'
\* and their authorities as its sorted, comma-joined authority field.
Attributed(row, groups) ==
    /\ row.SheetNames = Join(Sorted(groups))
    /\ row.RelevantTO =
          Join(Sorted({SHEET_ASSOCIATIONS(Last(sh)) : sh \in groups}))

\* The cell as it is written in the sheet.
AsWritten(c) == c

\* C14 (as stated): for every node of the registry, 'Sheet Names' is the
\* sorted, comma-joined list of exactly the origin groups in which the
\* token occurs as an endpoint of a reconciled record, and the authority
\* field is the sorted, comma-joined union of the authorities mapped from
\* the trailing tag character of those groups.
C14_AttributionAsWritten ==
    npc \in {"compiled", "returned"} =>
        \A i \in 1..Len(all_nodes_df) :
            Attributed(all_nodes_df[i], GroupsOf(all_nodes_df[i].Node, AsWritten))

\* C14 (amended): the same, a token occurring in a record when an endpoint
\* cell of the record equals it after surrounding blanks are stripped.
C14_AttributionStripped ==
    npc \in {"compiled", "returned"} =>
        \A i \in 1..Len(all_nodes_df) :
            Attributed(all_nodes_df[i], GroupsOf(all_nodes_df[i].Node, Strip))

\* Node ABCD4 occurs in a sheet of SHET and, written with a trailing blank,
\* in a sheet of NGET: "B-2-1a, B-2-2c" and "NGET, SHET".
C14_Witness ==
    /\ npc = "returned"
    /\ \E r \in Rows(circuit_data_filtered) :
          r.Node1 = TokA4Blank /\ r.Sheet_Name = SheetName("2", "2", "c")
    /\ \E i \in 1..Len(all_nodes_df) :
          /\ all_nodes_df[i].Node = <<"A", "B", "C", "D", "4">>
          /\ all_nodes_df[i].SheetNames =
                <<"B", "-", "2", "-", "1", "a", ",", " ",
                  "B", "-", "2", "-", "2", "c">>
          /\ all_nodes_df[i].RelevantTO =
                <<"N", "G", "E", "T", ",", " ", "S", "H", "E", "T">>

\* The token of the register row that the lookup has just been applied to,
\* when it is a text that is not blank.
Token == register_row.Node_Name
HasToken == Token # TextNaN /\ Token # <<>>

\* The lookup of the row has returned (it has not raised).
LookedUp == lpc \in {"apply", "done"} /\ HasToken

\* The places of the reference keys that share the first n characters of
\* the token, and the first of a set of places.
Sharing(n) == {i \in 1..Len(nodes_df) : Prefix(nodes_df[i], n) = Prefix(Token, n)}
ExactPlaces == {i \in 1..Len(nodes_df) : nodes_df[i] = Token}
FirstPlace(places) == CHOOSE i \in places : \A j \in places : i <= j

\* The row is one of a plant register (TEC or IC), which has capacities.
IsPlant == register \in {"tec", "ic"}

\* The capacity values of the row, and the row's capacity against the
\* high-capacity threshold.
CapacityValues ==
    {c.n : c \in {x \in {register_row.MW_Capacity, register_row.MW_Import_Capacity,
                         register_row.MW_Export_Capacity} : x.tag = "num"}}
AboveThreshold == \E v \in CapacityValues : v > GEN_CAPACITY_FOR_TRANSMISSION
AtOrBelowThreshold ==
    /\ CapacityValues # {}
    /\ \A v \in CapacityValues : v <= GEN_CAPACITY_FOR_TRANSMISSION

\* C15: whenever the token equals a key of the reference table, the lookup
\* returns that exact key, never another key of the 5-character or
\* 4-character tier, whatever the table order and the capacity.
C15_ExactShortCircuits ==
    (LookedUp /\ ExactPlaces # {}) => ETYS_Node = Token

\* Token ABCD4A is found although ABCD4B, which shares its first five
\* characters, comes first in the table.
C15_Witness ==
    /\ lpc = "apply"
    /\ register = "tec"
    /\ Token = <<"A", "B", "C", "D", "4", "A">>
    /\ nodes_df = <<<<"A", "B", "C", "D", "4", "B">>, <<"A", "B", "C", "D", "4", "A">>>>
    /\ ETYS_Node = <<"A", "B", "C", "D", "4", "A">>

\* The 4-character tier is reached with exactly two candidates, one with
\* 5th character '4' (place hi) and one with 5th character '3' (place lo).
TwoCandidates(hi, lo) ==
    /\ ExactPlaces = {}
    /\ Sharing(5) = {}
    /\ Sharing(4) = {hi, lo}
    /\ Len(nodes_df[hi]) >= 5 /\ nodes_df[hi][5] = "4"
    /\ Len(nodes_df[lo]) >= 5 /\ nodes_df[lo][5] = "3"

\* C16: with no exact and no 5-character match and two candidates sharing
\* the 4-character prefix, one 400 kV ('4') and one 33 kV ('3'), a record
\* whose capacity is strictly above the threshold resolves to the 400 kV
\* candidate and one whose capacity is at or below it to the 33 kV
\* candidate, in either table order.
C16_CapacityDisambiguation ==
    (LookedUp /\ IsPlant) =>
        \A hi, lo \in 1..Len(nodes_df) :
            TwoCandidates(hi, lo) =>
                /\ AboveThreshold => ETYS_Node = nodes_df[hi]
                /\ AtOrBelowThreshold => ETYS_Node = nodes_df[lo]

\* A capacity above the threshold resolves ABCD9 to ABCD4A although ABCD3A
\* comes first in the table.
C16_Witness ==
    /\ lpc = "apply"
    /\ register = "tec"
    /\ Token = <<"A", "B", "C", "D", "9">>
    /\ register_row.MW_Capacity = Num(GEN_CAPACITY_FOR_TRANSMISSION + 1)
    /\ nodes_df = <<<<"A", "B", "C", "D", "3", "A">>, <<"A", "B", "C", "D", "4", "A">>>>
    /\ ETYS_Node = <<"A", "B", "C", "D", "4", "A">>

\* The key at place i has a 5th character that is '2' or '4'.
Is275or400(i) == Len(nodes_df[i]) >= 5 /\ nodes_df[i][5] \in {"2", "4"}

\* C17: when the 4-character tier is reached and no candidate satisfies the
\* capacity preference (capacity above the threshold and no candidate with
\* 5th character '2' or '4'; or capacity at or below it and every candidate
\* with 5th character '2' or '4'), the lookup returns the first
\* 4-character match in table order.
C17_TierThreeFallback ==
    (HasToken /\ IsPlant /\ lpc # "idle"
        /\ ExactPlaces = {} /\ Sharing(5) = {} /\ Sharing(4) # {}
        /\ \/ AboveThreshold /\ \A i \in Sharing(4) : ~Is275or400(i)
           \/ AtOrBelowThreshold /\ \A i \in Sharing(4) : Is275or400(i))
    => (lpc # "raised" /\ ETYS_Node = nodes_df[FirstPlace(Sharing(4))])

\* C18: when a token has no exact match and several reference keys share
\* its first 5 characters, the lookup returns the first of them in table
\* order; the 4-character tier and the capacity play no part.
C18_TierTwoFirstMatch ==
    (LookedUp /\ ExactPlaces = {} /\ Cardinality(Sharing(5)) >= 2)
    => ETYS_Node = nodes_df[FirstPlace(Sharing(5))]

\* ABCD4 resolves to ABCD4B, the first key that starts with ABCD4, although
\* the capacity is low and ABCD3A is the first key that starts with ABCD.
C18_Witness ==
    /\ lpc = "apply"
    /\ register = "tec"
    /\ Token = <<"A", "B", "C", "D", "4">>
    /\ register_row.MW_Capacity = Num(GEN_CAPACITY_FOR_TRANSMISSION)
    /\ nodes_df = <<<<"A", "B", "C", "D", "3", "A">>, <<"A", "B", "C", "D", "4", "B">>,
                    <<"A", "B", "C", "D", "4", "A">>>>
    /\ ETYS_Node = <<"A", "B", "C", "D", "4", "B">>

\* C19: when a non-blank token matches no reference key at the exact, the
\* 5-character or the 4-character tier, ETYS_Node is left unset, a
\* diagnostic is recorded for the record, and processing continues with
\* the remaining records.
C19_UnresolvedIdentity ==
    (HasToken /\ lpc # "idle" /\ Sharing(4) = {} /\ Sharing(5) = {}
        /\ ExactPlaces = {})
    => (lpc # "raised" /\ ETYS_Node = TextNaN /\ unmatched_warning)

\* ---- C20 ----
\* The reference records a node's merge key equals: an index row with all
\* three cells, whose key is that of the node.
KeyedRecords(node) ==
    {r \in Rows(DropNa(index_data)) : SiteMergeKey(r) = NodeMergeKey(node)}

\* bus_ids.py: after the primary merge and after each fallback, a node with
\* keyed records has a row for each of them with its site name, and no row
\* with any other site name.
PrimaryNamedInScript ==
    bpc \in {"primary", "secondary", "done"} =>
        \A n \in Rows(node_df) :
            KeyedRecords(n) # {} =>
                {row.SiteName : row \in {x \in Rows(merged_df) : x.NodeName = n}}
                    = {r.SiteName : r \in KeyedRecords(n)}

\* get_network_data: the registry returned has, for a node with keyed
\* records, a row with the site name of each.
PrimaryNamedInRegistry ==
    mpc = "mapped" =>
        \A n \in Rows(node_df) : \A r \in KeyedRecords(n) :
            \E row \in Rows(site_nodes_df) :
                /\ row.Node = n
                /\ "SiteName" \in DOMAIN row
                /\ row.SiteName = r.SiteName

\* C20: a node whose merge key (first 4 characters + "-" + derived voltage)
\* equals the merge key of a reference site record (first 4 characters of
\* the site code + "-" + integer kV) has that record's site name, and the
\* fallbacks leave a name obtained this way in place.
C20_PrimarySiteMerge == PrimaryNamedInScript /\ PrimaryNamedInRegistry


\* ---- C21 ----
\* merged_df as the primary merge leaves it.
AfterPrimary == PrimaryMergeOf(node_df, DropNa(index_data))

\* The reference records with the 4-character prefix of a node, in table
\* order.
PrefixRecords(node) ==
    SelectSeq(DropNa(index_data),
              LAMBDA r : Prefix(r.SiteCode, 4) = Prefix(node, 4))

\* The site names of the reference records with the prefix of a node.
PrefixNames(node) ==
    {PrefixRecords(node)[i].SiteName : i \in 1..Len(PrefixRecords(node))}

\* C21: after the secondary merge, every row the primary merge left without
\* a site name, whose node shares its first 4 characters with a reference
\* site code, has the site name of the first such record in table order,
\* and no such row has a name of a site with another prefix.
C21_SecondaryFallback ==
    bpc = "secondary" =>
        \A p \in 1..Len(merged_df) :
            AfterPrimary[p].SiteName = TextNaN =>
                /\ PrefixRecords(merged_df[p].NodeName) # <<>> =>
                      merged_df[p].SiteName
                          = PrefixRecords(merged_df[p].NodeName)[1].SiteName
                /\ merged_df[p].SiteName # TextNaN =>
                      merged_df[p].SiteName \in PrefixNames(merged_df[p].NodeName)


\* ---- C22 ----
\* merged_df as the secondary merge leaves it.
AfterSecondary == AssignSecondary(AfterPrimary, DropNa(index_data))

\* The text ends with " (Node Name used)".
IsSynthesized(name) ==
    /\ Len(name) >= Len(NodeNameUsed)
    /\ SubSeq(name, Len(name) - Len(NodeNameUsed) + 1, Len(name)) = NodeNameUsed

\* bus_ids.py: when the script is done every row has a site name; a row
\* the merges left without one has its 4-character prefix plus the marker,
\* and every other row has the name the merges gave it, without the marker.
TertiaryInScript ==
    bpc = "done" =>
        \A p \in 1..Len(merged_df) :
            /\ merged_df[p].SiteName # TextNaN
            /\ IF AfterSecondary[p].SiteName = TextNaN
               THEN merged_df[p].SiteName
                        = Prefix(merged_df[p].NodeName, 4) \o NodeNameUsed
               ELSE /\ merged_df[p].SiteName = AfterSecondary[p].SiteName
                    /\ ~IsSynthesized(merged_df[p].SiteName)

\* get_network_data: every row of the registry returned has a site name.
TertiaryInRegistry ==
    mpc = "mapped" =>
        \A row \in Rows(site_nodes_df) :
            /\ "SiteName" \in DOMAIN row
            /\ row.SiteName # TextNaN

\* C22: after the site merge every node of the registry has a site name; a
\* node named by neither merge has its 4-character prefix followed by the
\* marker, which no name taken from a reference record carries.
C22_TertiaryFallback == TertiaryInScript /\ TertiaryInRegistry


\* ---- C23 ----
\* The rows of the coordinates CSV whose site code has the 4-character
\* prefix of a node, in table order.
CoordRecords(node) ==
    SelectSeq(coordinates_data.rows,
              LAMBDA c : Prefix(Strip(c.SiteCode), 4) = Prefix(node, 4))

\* The coordinate records of a node are rows of one site code.
OneSiteCode(node) ==
    /\ CoordRecords(node) # <<>>
    /\ \A i \in 1..Len(CoordRecords(node)) :
          Strip(CoordRecords(node)[i].SiteCode) = Strip(CoordRecords(node)[1].SiteCode)

\* The latitudes the rows of a node carry in a frame, and their number.
RowsOfNode(frame, col, node) ==
    SelectSeq(frame, LAMBDA row : row[col] = node)

\* A node whose coordinate records are rows of one site code has, in frame,
\* as many rows as in before, each with the latitude of the first record.
FirstCoordinates(frame, before, col) ==
    \A n \in Rows(node_df) :
        OneSiteCode(n) =>
            /\ Len(RowsOfNode(frame, col, n)) = Len(RowsOfNode(before, col, n))
            /\ \A i \in 1..Len(RowsOfNode(frame, col, n)) :
                  RowsOfNode(frame, col, n)[i].latitude
                      = CoordRecords(n)[1].latitude

CoordinatesInScript ==
    bpc = "written" => FirstCoordinates(bus_ids_df, merged_df, "NodeName")

CoordinatesInRegistry ==
    (mpc = "mapped" /\ coordinates_data.readable) =>
        FirstCoordinates(site_nodes_df, RegistryOf(node_df), "Node")

\* C23: a node whose prefix has coordinate records of one site code, however
\* often that site code is repeated in the coordinates table, has the
\* latitude and longitude of the first of them on every one of its rows, and
\* attaching the coordinates adds no row for it.
C23_CoordinateAttachment == CoordinatesInScript /\ CoordinatesInRegistry


\* ---- C24 ----
\* The three reconciled frames.
ReconciledFrames ==
    {circuit_data_filtered, transformer_data_filtered, reactive_data_filtered}

\* Every row with a type is in the group of its type.
EveryTypedRowGrouped ==
    \A frame \in ReconciledFrames : \A i \in 1..Len(frame) :
        frame[i].Type \notin {TextNaN, Absent} =>
            /\ frame[i].Type \in DOMAIN filtered_dataframes
            /\ frame[i] \in Rows(filtered_dataframes[frame[i].Type])

\* Every group holds rows of its type only.
GroupsOfOneType ==
    \A val \in DOMAIN filtered_dataframes :
        \A r \in Rows(filtered_dataframes[val]) : r.Type = val

\* C24: in the output of get_network_data every reconciled row of any kind
\* with a type value v is in the group named v, and a group holds only rows
\* whose type is its name.
C24_SubtypePartition ==
    apc \in {"split", "validated"} => EveryTypedRowGrouped /\ GroupsOfOneType


\* ---- C25 ----
\* The endpoint tokens of the surviving rows, as written in their cells.
SurvivingEndpoints ==
    UNION {{r.Node1, r.Node2, r.Node} \ {TextNaN, Absent} :
              r \in UNION {Rows(frame) : frame \in ReconciledFrames}}

\* The nodes of the registry get_network_data returned.
RegistryNodes == {all_nodes_df[i].Node : i \in 1..Len(all_nodes_df)}

\* C25: once the registry is returned and compared with the surviving rows,
\* every endpoint token of a circuit, transformer or reactive row that is no
\* node of the registry is in the list of missing nodes that is reported.
C25_ConnectivityDiscrepancy ==
    apc = "validated" =>
        \A token \in SurvivingEndpoints :
            token \notin RegistryNodes => token \in missing_nodes

\* The same for the endpoints of circuit and transformer rows only.
BranchEndpointsReported ==
    apc = "validated" =>
        \A token \in extract_branches_and_nodes(circuit_data_filtered,
                                                transformer_data_filtered) :
            token \notin RegistryNodes => token \in missing_nodes


\* ---- C26 ----
\* A key column of the join of a register with its mapping is missing.
KeyMissing(register_df, mapping_df) ==
    \/ "Project Number" \notin register_df
    \/ "Project Number" \notin mapping_df
    \/ "Node_Name" \notin mapping_df

\* C26: when 'Project Number' is missing from a register or its mapping, or
\* 'Node_Name' from a mapping, the run ends at that merge: nothing after
\* the merge is run and no output is written.
C26_ConfigurationFatal ==
    /\ KeyMissing(tec_register_df, tec_mapping_df) =>
          /\ ppc \in {"load", "exited"}
          /\ plant_output = "none"
    /\ KeyMissing(ic_register_df, ic_mapping_df) =>
          /\ ppc \in {"load", "tec", "exited"}
          /\ plant_output = "none"

\* The TEC join is complete, the IC mapping has no 'Node_Name', and the run
\* has ended at the IC merge.
C26_Witness ==
    /\ ~KeyMissing(tec_register_df, tec_mapping_df)
    /\ "Project Number" \in ic_register_df
    /\ "Project Number" \in ic_mapping_df
    /\ "Node_Name" \notin ic_mapping_df
    /\ tec_merged # {}
    /\ ppc = "exited"
    /\ plant_output = "none"


\* ---- C27 ----
\* A sheet of the workbook is absent, or present without rows.
MissingSource ==
    \E sh \in WorkbookSheets :
        sh \notin DOMAIN all_sheets_data \/ all_sheets_data[sh] = <<>>

\* C27: with a sheet absent or empty, and also with every sheet of a kind
\* or every selected sheet absent, get_network_data does not raise.
C27_MissingSourceNeverAborts == MissingSource => npc # "raised"

\* The same when a selected sheet is there and a node is found in it.
MissingSourceWithNodes ==
    (/\ MissingSource
     /\ DOMAIN filter_relevant_sheets_data(all_sheets_data, selected_tags) # {}
     /\ npc \notin {"parse", "concatenated"}
     /\ ~CompileRaises(circuit_data_filtered, transformer_data_filtered,
                       reactive_data_filtered))
        => npc # "raised"


\* ---- C28 ----
\* No row of the returned frame makes the comparison row_year > year raise.
OutputNeverRaises == \A i \in 1..Len(filtered_rows) : ~RowRaises(filtered_rows[i])

\* C28: the filter applied with the same target year to its own output
\* returns that output unchanged: the same rows in the same order, and no
\* row of the output raises on the second pass.
C28_FilterIdempotent ==
    pc = "done"
        => /\ OutputNeverRaises
           /\ FilterRun(filtered_rows, year, variant, is_reactive) = filtered_rows

\* C28 witness: three rows of one key were filtered, the third a Change in
\* effect that deleted an admitted row; the output, shorter than the input,
\* ends with that Change.
C28_Witness ==
    /\ pc = "done"
    /\ Len(df) = 3
    /\ Effective(df[3], "Change")
    /\ KeyOf(df[1]) = KeyOf(df[3])
    /\ Effective(df[1], "Addition")
    /\ filtered_rows /= <<>>
    /\ Len(filtered_rows) < Len(df)
    /\ Last(filtered_rows) = df[3]


\* ---- C29 ----
\* The row is appended when it is processed: its Status or its Year is
\* missing, or it is an Addition with a year Y <= T.
AdmittedOnSight(r) == IsNa(r.Status) \/ IsNa(r.Year) \/ Effective(r, "Addition")

\* The row deletes the admitted rows of its key: a removing row or a Change
\* with a year Y <= T.
Deleting(r) == Effective(r, RemoveTag(variant)) \/ Effective(r, "Change")

\* Input row i was appended and no later processed row of its key deletes.
SurvivesFrom(i) ==
    /\ AdmittedOnSight(df[i])
    /\ \A k \in (i + 1)..Len(df) :
          KeyOf(df[k]) = KeyOf(df[i]) => ~Deleting(df[k])

\* A removing row or a Change deletes only what precedes it: a row appended
\* with no deleting row of its key after it is in the admitted list, whatever
\* was removed before it.
AdmittedAfterRemoveKept ==
    Processed
        => \A i \in 1..Len(df) :
              SurvivesFrom(i) => \E j \in 1..Len(filtered_rows) : filtered_rows[j] = df[i]

\* A removing row with a year Y <= T whose key no admitted row has leaves the
\* admitted list as it was.
RemoveOfAbsentKeyIsNoOp ==
    (/\ Stepping
     /\ Last(df').Status = Str(RemoveTag(variant))
     /\ HasYear(Last(df')) /\ Last(df').Year.n <= year
     /\ \A r \in Rows(filtered_rows) : KeyOf(r) /= KeyOf(Last(df')))
        => filtered_rows' = filtered_rows

\* C29: the per-key state machine is re-enterable: a row admitted after a
\* removing row of the same key is present in the output (a key can go
\* present -> absent -> present within one pass), and a removing row for a
\* key with no admitted row leaves the admitted list unchanged.
C29_ReEnterable == []AdmittedAfterRemoveKept /\ [][RemoveOfAbsentKeyIsNoOp]_vars

\* C29 witness: [Addition(5,K), Remove(5,K), Addition(5,K)] was filtered: the
\* key was present, then absent, and the output is the third row alone.
C29_Witness ==
    /\ pc = "done"
    /\ Len(df) = 3
    /\ Effective(df[1], "Addition")
    /\ Effective(df[2], RemoveTag(variant))
    /\ Effective(df[3], "Addition")
    /\ filtered_rows = <<df[3]>>

\* C29 second case: a removing row in effect came first, when no row of its
\* key was admitted, and the admitted list stayed empty.
RemoveOfAbsentKeySeen ==
    /\ Processed
    /\ Len(df) = 1
    /\ Effective(df[1], RemoveTag(variant))
    /\ filtered_rows = <<>>


\* ---- C30 ----
\* The value a lookup assigned is unset, or a key of nodes_df that has the
\* first 4 characters of the row's token.
LookupSound ==
    lpc # "idle"
        => \/ ETYS_Node = TextNaN
           \/ /\ \E i \in 1..Len(nodes_df) : nodes_df[i] = ETYS_Node
              /\ Prefix(ETYS_Node, 4) = Prefix(Token, 4)

\* C30: for every token (of any length, fewer than 5 characters included),
\* every node registry (keys of exactly 4 characters included) and every
\* capacity, the lookup completes without raising and returns either unset
\* or a key of the registry that shares its first 4 characters with the
\* token.
C30_LookupTotalAndSound == lpc # "raised" /\ LookupSound

\* A plant lookup that reached the 4-character tier with a first candidate
\* of 4 characters.
FourCharacterCandidate ==
    /\ lpc = "raised"
    /\ IsPlant
    /\ Token = <<"A", "B", "C", "D", "4">>
    /\ nodes_df = <<<<"A", "B", "C", "D">>>>

====
